---- MODULE Spec2Model ----
(***************************************************************************)
(* Room Synchronizer of Cube-parkour: the MultiplayerManager class         *)
(* (src/unnamed/part_000).  Instances of the class exchange messages over  *)
(* two best-effort transports (BroadcastChannel and localStorage events),  *)
(* deduplicate them by message id, keep a registry of remote peers and     *)
(* evict silent peers on a timer.                                          *)
(*                                                                         *)
(* Time is the integer `now` in milliseconds.  Timers fire at their        *)
(* deadline: time advances only to the next pending deadline and only when *)
(* no timer is due and no message event is pending.  The timers of one     *)
(* instance due at one instant fire in the order they were started, those  *)
(* of different instances in any order.                                    *)
(* Message ids (peerId + Date.now() + random suffix in the source) are     *)
(* modelled as <<peerId, n>> with n a per-sender counter: unique per send. *)
(***************************************************************************)
EXTENDS Integers, Sequences, FiniteSets, TLC

\* ------------------------------------------------------------------ bounds
\* MaxTime: last instant the single-instance clock advances to; MaxEnvMsgs:
\* messages the surrounding tabs send; MaxCalls: outbound API calls;
\* MaxEnvTime: last instant a surrounding tab sends at; MaxRoomTime: last
\* instant the room's clock advances to; MaxJoinTime: last instant an instance
\* is created at; MaxFlood: messages of one burst; MaxLifeTime: last instant the
\* clock of the instances' lives advances to; MaxSendTime: last instant the clock
\* advances to while transports fail; MaxRoomsTime: last instant the clock of
\* two rooms advances to; MaxHostTime: last instant the clock of a host and a guest
\* advances to.
MaxTime == 6000
MaxEnvMsgs == 2
MaxCalls == 1
MaxEnvTime == 1200
MaxRoomTime == 2000
MaxJoinTime == 400
MaxFlood == 203
MaxRedo == 2
MaxLifeTime == 2500
MaxSendTime == 600
MaxRoomsTime == 400
MaxHostTime == 600

\* ------------------------------------------------------- program constants
HeartbeatMs == 400
CleanupMs == 2000
StaleMs == 3000
ReadyMs == 100
ReplyMs == 50
RemoveMs == 600
HighWater == 200
LowWater == 100
\* mutant: the last repetition is left out
JoinDelays_NoLast == <<200, 600, 1200>>

JoinDelays == <<200, 600, 1200, 2500>>

\* room identifiers, as getRoomIdFromURL accepts them ([a-zA-Z0-9-]+)
Room1 == <<"A", "B">>
RoomIds == {<<"A", "B">>, <<"A", "B", "-", "C">>, <<"X", "Y">>}

\* ------------------------------------------------------------- input sets
Insts == {"a1", "b1"}
Peers == {"a1", "b1", "c1"}
Profiles == {[name |-> "Ann", color |-> "red"], [name |-> "Bob", color |-> "blue"]}
Levels == {1}
OwnProfile(i) == IF i = "a1" THEN [name |-> "Ann", color |-> "red"]
                 ELSE [name |-> "Bob", color |-> "blue"]

VARIABLES
  now,                \* Date.now()
  created,            \* [Insts -> BOOLEAN]: the constructor has run
  destroyed,          \* [Insts -> BOOLEAN]
  remotePlayers,      \* [Insts -> Seq(RemotePlayerInfo)], a Map in insertion order
  seenMessageIds,     \* [Insts -> Seq(id)], a Set in insertion order
  bcChannel,          \* [Insts -> BOOLEAN]: the BroadcastChannel was opened
  lsOK,               \* [Insts -> BOOLEAN]: localStorage is usable in that context
  heartbeatInterval,  \* [Insts -> next firing time, or -1 when not running]
  cleanupInterval,    \* [Insts -> next firing time, or -1 when not running]
  timeouts,           \* [Insts -> Seq([at, fn, key])], pending setTimeout calls
  sent,               \* [Peers -> Nat]: messages stamped so far by each sender
  calls,              \* Seq([op, inst, arg]): the outbound API calls made so far, with
                      \* the argument the collaborator passed
  bcInFlight,         \* set of [to, msg]: posted, not yet delivered
  lsEvents,           \* set of [to, key, from, data]: storage events not yet delivered
  roomId,             \* [Peers -> string]: the room identifier each page is constructed
                      \* with, a string being the sequence of its characters
  isHost,             \* [Insts -> BOOLEAN]: the host flag each instance is constructed with
  store,              \* localStorage: set of [key, from, data]
  faults,             \* [Insts -> SUBSET {"bc", "ls"}]: the transports whose write
                      \* throws at present in that context (channel closed, quota
                      \* exceeded)
  lastHeard,          \* [Insts -> [Peers -> [any, alive]]]: when the instance last handled a
                      \* message of that peer since the peer's last playerLeft, of any type
                      \* (any) and of the types playerJoin, heartbeat and playerUpdate
                      \* (alive); -1: none
  removed,            \* [Insts -> SUBSET Peers]: the peers a scan or a playerLeft took out of
                      \* the instance's registry and of which it has accepted no playerJoin
                      \* and no heartbeat since
  joinHeard,          \* [Insts -> [Insts -> [at, known, replied]]]: the first playerJoin an
                      \* instance accepted from each other instance, whether the sender was
                      \* registered before it, and whether a join was sent in reply
  fired,              \* callbacks invoked by the last step, in order
  last                \* the last step: [op, inst, msg, ...]

vars == <<now, created, destroyed, remotePlayers, seenMessageIds, bcChannel, lsOK,
          heartbeatInterval, cleanupInterval, timeouts, sent, calls, bcInFlight,
          lsEvents, store, faults, roomId, isHost, lastHeard, joinHeard, removed, fired, last>>

NoMsg == [type |-> "none"]
NeverHeard == [any |-> -1, alive |-> -1]
NoJoin == [at |-> -1, known |-> FALSE, replied |-> FALSE]

\* ------------------------------------------------------------ Map helpers
RECURSIVE MapIndex(_, _)
MapIndex(m, id) ==
  IF m = <<>> THEN 0
  ELSE IF m[Len(m)].id = id THEN Len(m)
  ELSE MapIndex(SubSeq(m, 1, Len(m) - 1), id)

MapHas(m, id) == MapIndex(m, id) # 0
MapGet(m, id) == m[MapIndex(m, id)]
MapSet(m, id, info) ==
  IF MapHas(m, id) THEN [m EXCEPT ![MapIndex(m, id)] = info] ELSE Append(m, info)
MapDelete(m, id) == SelectSeq(m, LAMBDA e : e.id # id)
MapKeys(m) == {m[k].id : k \in 1..Len(m)}

SeqHas(s, x) == \E k \in 1..Len(s) : s[k] = x

\* mutant: the first n elements are kept, slice(0, n)
SliceLast_First(arr, n) == IF Len(arr) > n THEN SubSeq(arr, 1, n) ELSE arr

\* Array.prototype.slice(-n)
SliceLast(arr, n) ==
  IF Len(arr) > n THEN SubSeq(arr, Len(arr) - n + 1, Len(arr)) ELSE arr

\* ------------------------------------------------------------- messages
MsgId(p, n) == <<p, n>>
Heartbeat(p, prof) == [type |-> "heartbeat", peerId |-> p, name |-> prof.name, color |-> prof.color]
PlayerJoin(p, prof) == [type |-> "playerJoin", peerId |-> p, name |-> prof.name, color |-> prof.color]
PlayerLeft(p) == [type |-> "playerLeft", peerId |-> p]
LevelChange(p, lv) == [type |-> "levelChange", level |-> lv, peerId |-> p]
StartGame(p, lv) == [type |-> "startGame", level |-> lv, peerId |-> p]
PlayerState(prof) ==
  [x |-> 10, y |-> 20, vx |-> 3, vy |-> 0, width |-> 30, height |-> 30, onGround |-> TRUE,
   color |-> prof.color, name |-> prof.name, isDead |-> FALSE, hasWon |-> FALSE, deaths |-> 0]
\* the player objects a collaborator passes: the game's player at two moments,
\* with a field the message does not carry
PlayerInputs(prof) ==
  {[f \in DOMAIN PlayerState(prof) \cup {"jumpsLeft"} |->
      IF f = "jumpsLeft" THEN 1 ELSE PlayerState(prof)[f]],
   [f \in DOMAIN PlayerState(prof) \cup {"jumpsLeft"} |->
      IF f = "jumpsLeft" THEN 0
      ELSE IF f = "x" THEN 40 ELSE IF f = "y" THEN 5 ELSE IF f = "vy" THEN -7
      ELSE IF f = "onGround" THEN FALSE ELSE IF f = "deaths" THEN 1
      ELSE PlayerState(prof)[f]]}
PlayerUpdate(p, player) == [type |-> "playerUpdate", player |-> player, peerId |-> p]

\* { ...msg, _msgId: id }
WithId(msg, id) == [f \in DOMAIN msg \cup {"msgId"} |-> IF f = "msgId" THEN id ELSE msg[f]]

\* JSON.stringify and JSON.parse of a message: the text is the set of the
\* object's own "name": value members, the player object nested as its own text;
\* every value a message carries (string, finite number, boolean) is kept as it is
jsonText(o) == {<<f, o[f]>> : f \in DOMAIN o}
jsonObject(text) == [f \in {m[1] : m \in text} |-> (CHOOSE m \in text : m[1] = f)[2]]
JsonStringify(msg) ==
  jsonText([f \in DOMAIN msg |-> IF f = "player" THEN jsonText(msg[f]) ELSE msg[f]])
JsonParse(text) ==
  LET o == jsonObject(text)
  IN [f \in DOMAIN o |-> IF f = "player" THEN jsonObject(o[f]) ELSE o[f]]

\* the messages a peer p can put on the wire, before stamping
WireMsgs(p) ==
  {Heartbeat(p, prof) : prof \in Profiles} \cup {PlayerJoin(p, prof) : prof \in Profiles}
  \cup {PlayerUpdate(p, PlayerState(prof)) : prof \in Profiles}
  \cup {PlayerLeft(p)} \cup {LevelChange(p, lv) : lv \in Levels}
  \cup {StartGame(p, lv) : lv \in Levels}

\* ------------------------------------------------------------- callbacks
Cb(name, arg) == [cb |-> name, arg |-> arg]
RemotePlayerInfo(id, name, color, t) == [id |-> id, name |-> name, color |-> color, lastSeen |-> t]

\* mutant: only the count is notified
notifyConnectionChange_CountOnly(rp) == <<Cb("onConnectionChange", Len(rp))>>

notifyConnectionChange(rp) ==
  <<Cb("onConnectionChange", Len(rp)), Cb("onPlayerListChange", rp)>>

\* ---------------------------------------------------- handleIncomingMessage
\* The registry after the message, the callbacks it fires in order, and whether
\* a join reply is scheduled.  self: this.peerId; rp: this.remotePlayers; t: Date.now()
\* mutant: no reply to a join is scheduled
handleJoinOrHeartbeat_NoReply(rp, msg, t) ==
  LET wasKnown == MapHas(rp, msg.peerId)
      rp2 == MapSet(rp, msg.peerId, RemotePlayerInfo(msg.peerId, msg.name, msg.color, t))
  IN [rp |-> rp2,
      fired |-> IF ~wasKnown
                THEN <<Cb("onStatusChange", <<"joined", msg.name>>)>> \o notifyConnectionChange(rp2)
                ELSE <<>>,
      reply |-> FALSE]

\* mutant: a registered peer keeps the name and color it was registered with
handleJoinOrHeartbeat_KeepProfile(rp, msg, t) ==
  IF MapHas(rp, msg.peerId)
  THEN [rp |-> [rp EXCEPT ![MapIndex(rp, msg.peerId)].lastSeen = t],
        fired |-> <<>>, reply |-> FALSE]
  ELSE LET rp2 == MapSet(rp, msg.peerId, RemotePlayerInfo(msg.peerId, msg.name, msg.color, t))
       IN [rp |-> rp2,
           fired |-> <<Cb("onStatusChange", <<"joined", msg.name>>)>> \o notifyConnectionChange(rp2),
           reply |-> msg.type = "playerJoin"]

\* mutant: the notifications fire whether or not the peer was known
handleJoinOrHeartbeat_Renotify(rp, msg, t) ==
  LET rp2 == MapSet(rp, msg.peerId, RemotePlayerInfo(msg.peerId, msg.name, msg.color, t))
  IN [rp |-> rp2,
      fired |-> <<Cb("onStatusChange", <<"joined", msg.name>>)>> \o notifyConnectionChange(rp2),
      reply |-> ~MapHas(rp, msg.peerId) /\ msg.type = "playerJoin"]

\* mutant: every join is answered, that of a registered peer too
handleJoinOrHeartbeat_ReplyAlways(rp, msg, t) ==
  LET wasKnown == MapHas(rp, msg.peerId)
      rp2 == MapSet(rp, msg.peerId, RemotePlayerInfo(msg.peerId, msg.name, msg.color, t))
  IN [rp |-> rp2,
      fired |-> IF ~wasKnown
                THEN <<Cb("onStatusChange", <<"joined", msg.name>>)>> \o notifyConnectionChange(rp2)
                ELSE <<>>,
      reply |-> msg.type = "playerJoin"]

\* mutant: the join of a registered peer is answered, that of a newcomer is not
handleJoinOrHeartbeat_ReplyKnown(rp, msg, t) ==
  LET wasKnown == MapHas(rp, msg.peerId)
      rp2 == MapSet(rp, msg.peerId, RemotePlayerInfo(msg.peerId, msg.name, msg.color, t))
  IN [rp |-> rp2,
      fired |-> IF ~wasKnown
                THEN <<Cb("onStatusChange", <<"joined", msg.name>>)>> \o notifyConnectionChange(rp2)
                ELSE <<>>,
      reply |-> wasKnown /\ msg.type = "playerJoin"]

\* mutant: the heartbeat of a peer that is not registered is ignored
handleJoinOrHeartbeat_JoinFirst(rp, msg, t) ==
  LET wasKnown == MapHas(rp, msg.peerId)
      rp2 == MapSet(rp, msg.peerId, RemotePlayerInfo(msg.peerId, msg.name, msg.color, t))
  IN IF ~wasKnown /\ msg.type = "heartbeat"
     THEN [rp |-> rp, fired |-> <<>>, reply |-> FALSE]
     ELSE [rp |-> rp2,
           fired |-> IF ~wasKnown
                     THEN <<Cb("onStatusChange", <<"joined", msg.name>>)>>
                          \o notifyConnectionChange(rp2)
                     ELSE <<>>,
           reply |-> ~wasKnown /\ msg.type = "playerJoin"]

handleJoinOrHeartbeat(rp, msg, t) ==
  LET wasKnown == MapHas(rp, msg.peerId)
      rp2 == MapSet(rp, msg.peerId, RemotePlayerInfo(msg.peerId, msg.name, msg.color, t))
  IN [rp |-> rp2,
      fired |-> IF ~wasKnown
                THEN <<Cb("onStatusChange", <<"joined", msg.name>>)>> \o notifyConnectionChange(rp2)
                ELSE <<>>,
      reply |-> ~wasKnown /\ msg.type = "playerJoin"]

\* mutant: an update registers an unknown peer without the notifications
handlePlayerUpdate_Silent(rp, msg, t) ==
  IF MapHas(rp, msg.peerId)
  THEN [rp |-> [rp EXCEPT ![MapIndex(rp, msg.peerId)].lastSeen = t],
        fired |-> <<Cb("onMessage", msg)>>,
        reply |-> FALSE]
  ELSE [rp |-> MapSet(rp, msg.peerId,
                      RemotePlayerInfo(msg.peerId, msg.player.name, msg.player.color, t)),
        fired |-> <<Cb("onMessage", msg)>>,
        reply |-> FALSE]

\* mutant: an update of a registered peer leaves its lastSeen alone
handlePlayerUpdate_NoRefresh(rp, msg, t) ==
  IF MapHas(rp, msg.peerId)
  THEN [rp |-> rp, fired |-> <<Cb("onMessage", msg)>>, reply |-> FALSE]
  ELSE LET rp2 == MapSet(rp, msg.peerId,
                         RemotePlayerInfo(msg.peerId, msg.player.name, msg.player.color, t))
       IN [rp |-> rp2,
           fired |-> notifyConnectionChange(rp2) \o <<Cb("onMessage", msg)>>,
           reply |-> FALSE]

handlePlayerUpdate(rp, msg, t) ==
  IF MapHas(rp, msg.peerId)
  THEN [rp |-> [rp EXCEPT ![MapIndex(rp, msg.peerId)].lastSeen = t],
        fired |-> <<Cb("onMessage", msg)>>,
        reply |-> FALSE]
  ELSE LET rp2 == MapSet(rp, msg.peerId,
                         RemotePlayerInfo(msg.peerId, msg.player.name, msg.player.color, t))
       IN [rp |-> rp2,
           fired |-> notifyConnectionChange(rp2) \o <<Cb("onMessage", msg)>>,
           reply |-> FALSE]

\* mutant: a startGame is also handed to onMessage
handleStartGame_AsMessage(rp, msg, t) ==
  [rp |-> rp, fired |-> <<Cb("onGameStart", msg.level), Cb("onMessage", msg)>>, reply |-> FALSE]

handleStartGame(rp, msg, t) ==
  [rp |-> rp, fired |-> <<Cb("onGameStart", msg.level)>>, reply |-> FALSE]

\* mutant: a playerLeft of an unregistered peer is not followed by the notifications
handlePlayerLeft_OnlyKnown(rp, msg, t) ==
  LET rp2 == MapDelete(rp, msg.peerId)
  IN [rp |-> rp2,
      fired |-> (IF MapHas(rp, msg.peerId)
                 THEN <<Cb("onStatusChange", <<"left", MapGet(rp, msg.peerId).name>>)>>
                      \o notifyConnectionChange(rp2)
                 ELSE <<>>)
                \o <<Cb("onMessage", msg)>>,
      reply |-> FALSE]

\* mutant: the entry of the leaving peer stays in the registry
handlePlayerLeft_KeepEntry(rp, msg, t) ==
  [rp |-> rp,
   fired |-> (IF MapHas(rp, msg.peerId)
              THEN <<Cb("onStatusChange", <<"left", MapGet(rp, msg.peerId).name>>)>>
              ELSE <<>>)
             \o notifyConnectionChange(rp) \o <<Cb("onMessage", msg)>>,
   reply |-> FALSE]

handlePlayerLeft(rp, msg, t) ==
  LET rp2 == MapDelete(rp, msg.peerId)
  IN [rp |-> rp2,
      fired |-> (IF MapHas(rp, msg.peerId)
                 THEN <<Cb("onStatusChange", <<"left", MapGet(rp, msg.peerId).name>>)>>
                 ELSE <<>>)
                \o notifyConnectionChange(rp2) \o <<Cb("onMessage", msg)>>,
      reply |-> FALSE]

handleLevelChange(rp, msg, t) ==
  [rp |-> rp, fired |-> <<Cb("onMessage", msg)>>, reply |-> FALSE]

\* switch (msg.type)
dispatch(rp, msg, t) ==
  CASE msg.type \in {"heartbeat", "playerJoin"} -> handleJoinOrHeartbeat(rp, msg, t)
    [] msg.type = "playerUpdate" -> handlePlayerUpdate(rp, msg, t)
    [] msg.type = "startGame" -> handleStartGame(rp, msg, t)
    [] msg.type = "playerLeft" -> handlePlayerLeft(rp, msg, t)
    [] msg.type = "levelChange" -> handleLevelChange(rp, msg, t)
    [] OTHER -> [rp |-> rp, fired |-> <<>>, reply |-> FALSE]

\* mutant: the sender is not compared with this.peerId
handleIncomingMessage_NoSelfCheck(self, rp, msg, t) == dispatch(rp, msg, t)

\* mutant: a host does not take a startGame from others
handleIncomingMessage_HostDecides(self, rp, msg, t) ==
  IF msg.peerId = self \/ (msg.type = "startGame" /\ isHost[self])
  THEN [rp |-> rp, fired |-> <<>>, reply |-> FALSE]
  ELSE dispatch(rp, msg, t)

handleIncomingMessage(self, rp, msg, t) ==
  IF msg.peerId = self THEN [rp |-> rp, fired |-> <<>>, reply |-> FALSE]
  ELSE dispatch(rp, msg, t)

\* ------------------------------------------------------------ deduplication
\* if (msg._msgId && this.seenMessageIds.has(msg._msgId)) return;
\* mutant: the channel handler never finds a message already seen
bcIsDuplicate_Never(seen, msg) == FALSE

bcIsDuplicate(seen, msg) == SeqHas(seen, msg.msgId)
lsIsDuplicate(seen, msg) == SeqHas(seen, msg.msgId)

\* this.seenMessageIds.add(id); if (size > 200) keep Array.from(set).slice(-100)
\* mutant: the set is never trimmed
bcRemember_NoTrim(seen, msg) == Append(seen, msg.msgId)

\* mutant: the store relay does not record the id
lsRemember_Forget(seen, msg) == seen

bcRemember(seen, msg) ==
  LET added == Append(seen, msg.msgId)
  IN IF Len(added) > HighWater THEN SliceLast(added, LowWater) ELSE added
lsRemember(seen, msg) ==
  LET added == Append(seen, msg.msgId)
  IN IF Len(added) > HighWater THEN SliceLast(added, LowWater) ELSE added

\* --------------------------------------------------------- liveness scan
\* mutant: a peer is stale one scan period after the end of the window
IsStale_Late(player, t) == t - player.lastSeen > StaleMs + CleanupMs

\* mutant: a peer is stale from the end of the window on
IsStale_AtLeast(player, t) == t - player.lastSeen >= StaleMs

\* mutant: no peer is ever stale
IsStale_Never(player, t) == FALSE

\* mutant: a peer is stale when a whole scan period has passed
IsStale_OneScan(player, t) == t - player.lastSeen >= CleanupMs

IsStale(player, t) == t - player.lastSeen > StaleMs

RECURSIVE cleanupFired(_, _)
cleanupFired(rp, t) ==
  IF rp = <<>> THEN <<>>
  ELSE (IF IsStale(Head(rp), t)
        THEN <<Cb("onStatusChange", <<"disconnected", Head(rp).name>>),
               Cb("onMessage", PlayerLeft(Head(rp).id))>>
        ELSE <<>>) \o cleanupFired(Tail(rp), t)

cleanupScan(rp, t) ==
  LET rp2 == SelectSeq(rp, LAMBDA e : ~IsStale(e, t))
      changed == \E k \in 1..Len(rp) : IsStale(rp[k], t)
  IN [rp |-> rp2,
      fired |-> cleanupFired(rp, t) \o (IF changed THEN notifyConnectionChange(rp2) ELSE <<>>)]

\* ---------------------------------------------------------------- broadcast
\* Who gets a copy: every other instance whose channel is open (BroadcastChannel
\* posts to the other channel objects of the same name, `cuberunner-room-` + roomId),
\* every other instance whose storage listener is registered (a storage event is
\* sent to every page of the origin but the writer).
BcListeners(i) ==
  {j \in Insts \ {i} : created[j] /\ bcChannel[j] /\ ~destroyed[j] /\ roomId[j] = roomId[i]}
LsListeners(i) == {j \in Insts \ {i} : created[j] /\ lsOK[j] /\ ~destroyed[j]}

\* `cr-${roomId}-`
KeyPrefix(room) == <<"c", "r", "-">> \o room \o <<"-">>
\* String.prototype.startsWith
StartsWith(str, prefix) ==
  Len(prefix) <= Len(str) /\ SubSeq(str, 1, Len(prefix)) = prefix
\* `cr-${roomId}-${Date.now()}-${random}`: the part after the prefix is modelled by
\* the writer and its counter
StorageKey(i, n) == KeyPrefix(roomId[i]) \o <<i, ToString(n)>>
\* a pending setTimeout: registered at reg, due at reg + delay
Timeout(reg, delay, fn, key) == [at |-> reg + delay, reg |-> reg, fn |-> fn, key |-> key]
NoKey == <<>>

\* What a send leaves behind: the sender's id counter, the two transports, the
\* store and the sender's pending timeouts
Wire(n, bc, ev, st, tos) == [sent |-> n, bcInFlight |-> bc, lsEvents |-> ev, store |-> st, timeouts |-> tos]

\* mutant: one try block around both writes, the store is not tried once the
\* channel has failed
post_GiveUp(i, msg, tos, bc, ls) ==
  LET n == sent[i] + 1
      msgWithId == WithId(msg, MsgId(i, n))
      key == StorageKey(i, n)
      posted == bc /\ "bc" \notin faults[i]
      stored == ls /\ "ls" \notin faults[i] /\ ~(bc /\ "bc" \in faults[i])
  IN Wire(n,
          IF posted
          THEN bcInFlight \cup {[to |-> j, msg |-> msgWithId] : j \in BcListeners(i)}
          ELSE bcInFlight,
          IF stored
          THEN lsEvents \cup
               {[to |-> j, key |-> key, from |-> i, data |-> msgWithId] : j \in LsListeners(i)}
          ELSE lsEvents,
          IF stored THEN store \cup {[key |-> key, from |-> i, data |-> msgWithId]} ELSE store,
          IF stored THEN Append(tos, Timeout(now, RemoveMs, "removeItem", key)) ELSE tos)

\* The body of broadcast(msg) past its destroyed check, for an instance whose
\* channel was opened iff bc and whose localStorage is usable iff ls, with the
\* writes that throw at present (faults) caught; tos are the pending timeouts with
\* the caller's own changes already applied.
post(i, msg, tos, bc, ls) ==
  LET n == sent[i] + 1
      msgWithId == WithId(msg, MsgId(i, n))
      key == StorageKey(i, n)
      posted == bc /\ "bc" \notin faults[i]
      stored == ls /\ "ls" \notin faults[i]
  IN Wire(n,
          IF posted
          THEN bcInFlight \cup {[to |-> j, msg |-> msgWithId] : j \in BcListeners(i)}
          ELSE bcInFlight,
          IF stored
          THEN lsEvents \cup
               {[to |-> j, key |-> key, from |-> i, data |-> msgWithId] : j \in LsListeners(i)}
          ELSE lsEvents,
          IF stored THEN store \cup {[key |-> key, from |-> i, data |-> msgWithId]} ELSE store,
          IF stored THEN Append(tos, Timeout(now, RemoveMs, "removeItem", key)) ELSE tos)

\* catch { /* closed */ } and catch { /* not available */ }: the errors a catch
\* block lets through to the caller of broadcast
catchPostMessage(err) == {}
catchSetItem(err) == {}

\* the errors that leave the body of broadcast(msg)
escapes(i, bc, ls) ==
  (IF bc /\ "bc" \in faults[i] THEN catchPostMessage("postMessage") ELSE {})
  \cup (IF ~ls \/ "ls" \in faults[i] THEN catchSetItem("setItem") ELSE {})

\* the errors that leave broadcast(msg) as called when this.destroyed has the
\* value dead
broadcastEscapes(i, dead) == IF dead THEN {} ELSE escapes(i, bcChannel[i], lsOK[i])

\* mutant: broadcast does not look at this.destroyed
broadcast_Undead(i, msg, dead, tos) == post(i, msg, tos, bcChannel[i], lsOK[i])

\* broadcast(msg) as called when this.destroyed has the value dead
broadcast(i, msg, dead, tos) ==
  IF dead THEN Wire(sent[i], bcInFlight, lsEvents, store, tos)
  ELSE post(i, msg, tos, bcChannel[i], lsOK[i])

announceJoin(i, dead, tos) ==
  IF dead THEN Wire(sent[i], bcInFlight, lsEvents, store, tos)
  ELSE broadcast(i, PlayerJoin(i, OwnProfile(i)), dead, tos)

\* the state after a send by i
Emit(i, w) ==
  /\ sent' = [sent EXCEPT ![i] = w.sent]
  /\ bcInFlight' = w.bcInFlight
  /\ lsEvents' = w.lsEvents
  /\ store' = w.store
  /\ timeouts' = [timeouts EXCEPT ![i] = w.timeouts]

IsInstance(p) == IF p \in Insts THEN created[p] ELSE FALSE

RemoveAt(s, k) == SubSeq(s, 1, k - 1) \o SubSeq(s, k + 1, Len(s))

\* ---------------------------------------------------------------- state
\* everything but the constructor's roomId and isHost
InitState ==
  /\ now = 0
  /\ created = [i \in Insts |-> FALSE]
  /\ destroyed = [i \in Insts |-> FALSE]
  /\ remotePlayers = [i \in Insts |-> <<>>]
  /\ seenMessageIds = [i \in Insts |-> <<>>]
  /\ bcChannel = [i \in Insts |-> FALSE]
  /\ lsOK = [i \in Insts |-> FALSE]
  /\ heartbeatInterval = [i \in Insts |-> -1]
  /\ cleanupInterval = [i \in Insts |-> -1]
  /\ timeouts = [i \in Insts |-> <<>>]
  /\ sent = [p \in Peers |-> 0]
  /\ calls = <<>>
  /\ faults = [i \in Insts |-> {}]
  /\ bcInFlight = {}
  /\ lsEvents = {}
  /\ store = {}
  /\ lastHeard = [i \in Insts |-> [p \in Peers |-> NeverHeard]]
  /\ joinHeard = [i \in Insts |-> [p \in Insts |-> NoJoin]]
  /\ removed = [i \in Insts |-> {}]
  /\ fired = <<>>
  /\ last = [op |-> "init", inst |-> "none", msg |-> NoMsg]

\* all pages are of one room, no instance is the host
Init ==
  /\ InitState
  /\ roomId = [p \in Peers |-> Room1]
  /\ isHost = [i \in Insts |-> FALSE]

\* new MultiplayerManager(...): bc says whether new BroadcastChannel succeeded,
\* ls whether localStorage is usable in this context.  The timeouts are in the
\* order the constructor registers them.
Construct(i, bc, ls) ==
  /\ ~created[i]
  /\ created' = [created EXCEPT ![i] = TRUE]
  /\ bcChannel' = [bcChannel EXCEPT ![i] = bc]
  /\ lsOK' = [lsOK EXCEPT ![i] = ls]
  /\ heartbeatInterval' = [heartbeatInterval EXCEPT ![i] = now + HeartbeatMs]
  /\ cleanupInterval' = [cleanupInterval EXCEPT ![i] = now + CleanupMs]
  /\ LET first == post(i, PlayerJoin(i, OwnProfile(i)),
                        <<Timeout(now, ReadyMs, "ready", NoKey)>>, bc, ls)
     IN Emit(i, [first EXCEPT !.timeouts =
                   @ \o [k \in 1..Len(JoinDelays) |->
                           Timeout(now, JoinDelays[k], "announceJoin", NoKey)]])
  /\ fired' = <<>>
  /\ last' = [op |-> "construct", inst |-> i, msg |-> NoMsg, thrown |-> escapes(i, bc, ls)]
  /\ UNCHANGED <<removed, isHost, roomId, faults, now, destroyed, remotePlayers, seenMessageIds, calls, lastHeard, joinHeard>>

\* --------------------------------------------------------------- timers
\* The timers of one instance that are due fire in the order they were started
\* (the timer with the earlier start first, timeouts started in the same
\* millisecond in the order of their setTimeout calls).  An interval is started
\* anew each time it fires.  A key is <<start time, position>>, the position of
\* a timeout being its place among the pending timeouts and that of the two
\* intervals -2 and -1 (their periods differ from every timeout's delay, so an
\* interval never ties with another timer).
HeartbeatKey(i) == <<heartbeatInterval[i] - HeartbeatMs, -2>>
CleanupKey(i) == <<cleanupInterval[i] - CleanupMs, -1>>
TimeoutKey(i, k) == <<timeouts[i][k].reg, k>>

DueKeys(i) ==
  (IF heartbeatInterval[i] >= 0 /\ heartbeatInterval[i] <= now THEN {HeartbeatKey(i)} ELSE {})
  \cup (IF cleanupInterval[i] >= 0 /\ cleanupInterval[i] <= now THEN {CleanupKey(i)} ELSE {})
  \cup {TimeoutKey(i, k) : k \in {j \in 1..Len(timeouts[i]) : timeouts[i][j].at <= now}}

Before(a, b) == a[1] < b[1] \/ (a[1] = b[1] /\ a[2] <= b[2])
FiresNext(i, key) == key \in DueKeys(i) /\ \A other \in DueKeys(i) : Before(key, other)
\* mutant: an instance with an empty registry keeps quiet
heartbeatTick_OnlyWithPeers(i) ==
  /\ created[i]
  /\ FiresNext(i, HeartbeatKey(i))
  /\ heartbeatInterval' = [heartbeatInterval EXCEPT ![i] = @ + HeartbeatMs]
  /\ Emit(i, broadcast(i, Heartbeat(i, OwnProfile(i)),
                       destroyed[i] \/ remotePlayers[i] = <<>>, timeouts[i]))
  /\ fired' = <<>>
  /\ last' = [op |-> "heartbeat", inst |-> i, msg |-> NoMsg,
              thrown |-> broadcastEscapes(i, destroyed[i])]
  /\ UNCHANGED <<removed, isHost, roomId, faults, now, created, destroyed, remotePlayers, seenMessageIds, bcChannel, lsOK,
                 cleanupInterval, calls, lastHeard, joinHeard>>

\* the callback of setInterval(..., 400)
heartbeatTick(i) ==
  /\ created[i]
  /\ FiresNext(i, HeartbeatKey(i))
  /\ heartbeatInterval' = [heartbeatInterval EXCEPT ![i] = @ + HeartbeatMs]
  /\ Emit(i, broadcast(i, Heartbeat(i, OwnProfile(i)), destroyed[i], timeouts[i]))
  /\ fired' = <<>>
  /\ last' = [op |-> "heartbeat", inst |-> i, msg |-> NoMsg,
              thrown |-> broadcastEscapes(i, destroyed[i])]
  /\ UNCHANGED <<removed, isHost, roomId, faults, now, created, destroyed, remotePlayers, seenMessageIds, bcChannel, lsOK,
                 cleanupInterval, calls, lastHeard, joinHeard>>

cleanupTick(i) ==
  /\ created[i]
  /\ FiresNext(i, CleanupKey(i))
  /\ cleanupInterval' = [cleanupInterval EXCEPT ![i] = @ + CleanupMs]
  /\ LET r == IF destroyed[i] THEN [rp |-> remotePlayers[i], fired |-> <<>>]
              ELSE cleanupScan(remotePlayers[i], now)
     IN /\ remotePlayers' = [remotePlayers EXCEPT ![i] = r.rp]
        /\ removed' = [removed EXCEPT ![i] = @ \cup (MapKeys(remotePlayers[i]) \ MapKeys(r.rp))]
        /\ fired' = r.fired
  /\ last' = [op |-> "cleanup", inst |-> i, msg |-> NoMsg]
  /\ UNCHANGED <<isHost, roomId, faults, now, created, destroyed, seenMessageIds, bcChannel, lsOK, heartbeatInterval,
                 timeouts, sent, calls, bcInFlight, lsEvents, store, lastHeard, joinHeard>>

\* setTimeout(() => { if (!this.destroyed) onStatusChange('Salle prete') }, 100)
readyTimeout(i, k) ==
  /\ k \in 1..Len(timeouts[i])
  /\ timeouts[i][k].fn = "ready"
  /\ FiresNext(i, TimeoutKey(i, k))
  /\ timeouts' = [timeouts EXCEPT ![i] = RemoveAt(@, k)]
  /\ fired' = IF destroyed[i] THEN <<>> ELSE <<Cb("onStatusChange", <<"ready">>)>>
  /\ last' = [op |-> "ready", inst |-> i, msg |-> NoMsg]
  /\ UNCHANGED <<removed, isHost, roomId, faults, now, created, destroyed, remotePlayers, seenMessageIds, bcChannel, lsOK,
                 heartbeatInterval, cleanupInterval, sent, calls, bcInFlight, lsEvents, store, lastHeard, joinHeard>>

\* setTimeout(() => this.announceJoin(), d): the four scheduled announcements
\* (fn "announceJoin") and the reply to a newcomer's join (fn "reply")
announceTimeout(i, k) ==
  /\ k \in 1..Len(timeouts[i])
  /\ timeouts[i][k].fn \in {"announceJoin", "reply"}
  /\ FiresNext(i, TimeoutKey(i, k))
  /\ Emit(i, announceJoin(i, destroyed[i], RemoveAt(timeouts[i], k)))
  /\ joinHeard' = IF timeouts[i][k].fn = "reply" /\ ~destroyed[i] /\ IsInstance(timeouts[i][k].key)
                  THEN [joinHeard EXCEPT ![i][timeouts[i][k].key].replied = TRUE]
                  ELSE joinHeard
  /\ fired' = <<>>
  /\ last' = [op |-> timeouts[i][k].fn, inst |-> i, msg |-> NoMsg,
              thrown |-> broadcastEscapes(i, destroyed[i])]
  /\ UNCHANGED <<removed, isHost, roomId, faults, now, created, destroyed, remotePlayers, seenMessageIds, bcChannel, lsOK,
                 heartbeatInterval, cleanupInterval, calls, lastHeard>>

\* setTimeout(() => localStorage.removeItem(key), 600)
removeItemTimeout(i, k) ==
  /\ k \in 1..Len(timeouts[i])
  /\ timeouts[i][k].fn = "removeItem"
  /\ FiresNext(i, TimeoutKey(i, k))
  /\ timeouts' = [timeouts EXCEPT ![i] = RemoveAt(@, k)]
  /\ store' = {r \in store : r.key # timeouts[i][k].key}
  /\ fired' = <<>>
  /\ last' = [op |-> "removeItem", inst |-> i, msg |-> NoMsg]
  /\ UNCHANGED <<removed, isHost, roomId, faults, now, created, destroyed, remotePlayers, seenMessageIds, bcChannel, lsOK,
                 heartbeatInterval, cleanupInterval, sent, calls, bcInFlight, lsEvents, lastHeard, joinHeard>>

\* ------------------------------------------------------------ inbound
\* What both transport handlers do with a message that got past their own checks:
\* r is handleIncomingMessage's result
Received(i, msg, r) ==
  /\ remotePlayers' = [remotePlayers EXCEPT ![i] = r.rp]
  /\ lastHeard' = IF msg.peerId # i
                  THEN [lastHeard EXCEPT ![i][msg.peerId] =
                          IF msg.type = "playerLeft" THEN NeverHeard
                          ELSE [any |-> now,
                                alive |-> IF msg.type \in {"playerJoin", "heartbeat", "playerUpdate"}
                                          THEN now ELSE @.alive]]
                  ELSE lastHeard
  /\ joinHeard' = IF /\ msg.type = "playerJoin" /\ msg.peerId # i /\ IsInstance(msg.peerId)
                     /\ joinHeard[i][msg.peerId].at < 0
                  THEN [joinHeard EXCEPT ![i][msg.peerId] =
                          [at |-> now, known |-> MapHas(remotePlayers[i], msg.peerId),
                           replied |-> FALSE]]
                  ELSE joinHeard
  /\ removed' = [removed EXCEPT ![i] =
                   IF msg.type \in {"playerJoin", "heartbeat"} THEN @ \ {msg.peerId}
                   ELSE IF msg.type = "playerLeft" /\ MapHas(remotePlayers[i], msg.peerId)
                        THEN @ \cup {msg.peerId}
                   ELSE @]
  /\ fired' = r.fired
  /\ timeouts' = [timeouts EXCEPT ![i] =
                    IF r.reply THEN Append(@, Timeout(now, ReplyMs, "reply", msg.peerId)) ELSE @]

Delivery(op, i, msg, processed) ==
  [op |-> op, inst |-> i, msg |-> msg, processed |-> processed,
   known |-> MapHas(remotePlayers[i], msg.peerId)]

\* this.bcChannel.onmessage
bcOnMessage(e) ==
  /\ e \in bcInFlight
  /\ bcInFlight' = bcInFlight \ {e}
  /\ LET i == e.to
         msg == e.msg
         ignored == destroyed[i] \/ bcIsDuplicate(seenMessageIds[i], msg)
     IN /\ IF ignored
           THEN /\ fired' = <<>>
                /\ UNCHANGED <<removed, isHost, roomId, faults, remotePlayers, seenMessageIds, timeouts, lastHeard, joinHeard>>
           ELSE /\ seenMessageIds' = [seenMessageIds EXCEPT ![i] = bcRemember(@, msg)]
                /\ Received(i, msg, handleIncomingMessage(i, remotePlayers[i], msg, now))
        /\ last' = Delivery("bcOnMessage", i, msg, ~ignored)
  /\ UNCHANGED <<isHost, roomId, faults, now, created, destroyed, bcChannel, lsOK, heartbeatInterval, cleanupInterval,
                 sent, calls, lsEvents, store>>

\* this.storageHandler: the event's key has the room's prefix and its newValue
\* is the JSON text of {from, data}, data being what the writer stringified
storageHandler(e) ==
  /\ e \in lsEvents
  /\ lsEvents' = lsEvents \ {e}
  /\ LET i == e.to
         msg == JsonParse(JsonStringify(e.data))
         ignored == \/ destroyed[i]
                    \/ ~StartsWith(e.key, KeyPrefix(roomId[i]))
                    \/ e.from = i
                    \/ lsIsDuplicate(seenMessageIds[i], msg)
     IN /\ IF ignored
           THEN /\ fired' = <<>>
                /\ UNCHANGED <<removed, isHost, roomId, faults, remotePlayers, seenMessageIds, timeouts, lastHeard, joinHeard>>
           ELSE /\ seenMessageIds' = [seenMessageIds EXCEPT ![i] = lsRemember(@, msg)]
                /\ Received(i, msg, handleIncomingMessage(i, remotePlayers[i], msg, now))
        /\ last' = Delivery("storageHandler", i, msg, ~ignored)
  /\ UNCHANGED <<isHost, roomId, faults, now, created, destroyed, bcChannel, lsOK, heartbeatInterval, cleanupInterval,
                 sent, calls, bcInFlight, store>>

\* a transport loses a copy
dropBC(e) ==
  /\ e \in bcInFlight
  /\ bcInFlight' = bcInFlight \ {e}
  /\ fired' = <<>>
  /\ last' = [op |-> "dropBC", inst |-> e.to, msg |-> NoMsg]
  /\ UNCHANGED <<removed, isHost, roomId, faults, now, created, destroyed, remotePlayers, seenMessageIds, bcChannel, lsOK,
                 heartbeatInterval, cleanupInterval, timeouts, sent, calls, lsEvents, store, lastHeard, joinHeard>>

dropLS(e) ==
  /\ e \in lsEvents
  /\ lsEvents' = lsEvents \ {e}
  /\ fired' = <<>>
  /\ last' = [op |-> "dropLS", inst |-> e.to, msg |-> NoMsg]
  /\ UNCHANGED <<removed, isHost, roomId, faults, now, created, destroyed, remotePlayers, seenMessageIds, bcChannel, lsOK,
                 heartbeatInterval, cleanupInterval, timeouts, sent, calls, bcInFlight, store, lastHeard, joinHeard>>

\* ------------------------------------------------------------ outbound API
PlayerFields == {"x", "y", "vx", "vy", "width", "height", "onGround", "color", "name",
                 "isDead", "hasWon", "deaths"}

ApiCall(i, op, arg, msg) ==
  /\ created[i]
  /\ Len(SelectSeq(calls, LAMBDA c : c.inst = i)) < MaxCalls
  /\ calls' = Append(calls, [op |-> op, inst |-> i, arg |-> <<arg>>])
  /\ Emit(i, broadcast(i, msg, destroyed[i], timeouts[i]))
  /\ fired' = <<>>
  /\ last' = [op |-> op, inst |-> i, msg |-> msg, thrown |-> broadcastEscapes(i, destroyed[i])]
  /\ UNCHANGED <<removed, isHost, roomId, faults, now, created, destroyed, remotePlayers, seenMessageIds, bcChannel, lsOK,
                 heartbeatInterval, cleanupInterval, lastHeard, joinHeard>>

\* mutant: the velocity is not copied
sendPlayerUpdate_NoVelocity(i, player) ==
  ApiCall(i, "sendPlayerUpdate", player,
          PlayerUpdate(i, [f \in PlayerFields |-> IF f \in {"vx", "vy"} THEN 0 ELSE player[f]]))

sendPlayerUpdate(i, player) ==
  ApiCall(i, "sendPlayerUpdate", player, PlayerUpdate(i, [f \in PlayerFields |-> player[f]]))

sendLevelChange(i, level) == ApiCall(i, "sendLevelChange", level, LevelChange(i, level))

startGame(i, level) == ApiCall(i, "startGame", level, StartGame(i, level))

\* destroy(): this.destroyed is set before the departure is broadcast
destroy(i) ==
  /\ created[i]
  /\ ~destroyed[i]
  /\ destroyed' = [destroyed EXCEPT ![i] = TRUE]
  /\ LET w == broadcast(i, PlayerLeft(i), TRUE, timeouts[i])
     IN Emit(i, [w EXCEPT !.store = {r \in @ : ~StartsWith(r.key, KeyPrefix(roomId[i]))}])
  /\ heartbeatInterval' = [heartbeatInterval EXCEPT ![i] = -1]
  /\ cleanupInterval' = [cleanupInterval EXCEPT ![i] = -1]
  /\ remotePlayers' = [remotePlayers EXCEPT ![i] = <<>>]
  /\ fired' = <<>>
  /\ last' = [op |-> "destroy", inst |-> i, msg |-> NoMsg]
  /\ UNCHANGED <<removed, isHost, roomId, faults, now, created, seenMessageIds, bcChannel, lsOK, calls, lastHeard, joinHeard>>

\* ------------------------------------------------------------------ time
Deadlines ==
  {heartbeatInterval[i] : i \in {j \in Insts : heartbeatInterval[j] >= 0}}
  \cup {cleanupInterval[i] : i \in {j \in Insts : cleanupInterval[j] >= 0}}
  \cup UNION {{timeouts[i][k].at : k \in 1..Len(timeouts[i])} : i \in Insts}

Min(S) == CHOOSE x \in S : \A y \in S : x <= y

NoTimerDue == \A d \in Deadlines : d > now

\* ------------------------------------------------------------ environment
\* Another tab of the room that is not one of the modelled instances sends one
\* message: a copy on each transport for every listening instance.  w is the
\* sending tab; the message and the store record's `from` carry msg.peerId, which
\* is w's own id or, for an echo of the listener's own traffic, the listener's.
EnvPeers == {"a1", "c1"}
EnvMsgs(w) ==
  IF w = "a1"
  THEN WireMsgs("a1") \cup {PlayerJoin("b1", OwnProfile("b1"))}
  ELSE {Heartbeat("c1", OwnProfile("b1")), PlayerJoin("c1", OwnProfile("b1")),
        PlayerUpdate("c1", PlayerState(OwnProfile("b1"))), PlayerLeft("c1")}
EnvTotal == sent["a1"] + sent["c1"]

envPost(w, msg) ==
  /\ LET msgWithId == WithId(msg, MsgId(w, sent[w] + 1))
         key == StorageKey(w, sent[w] + 1)
     IN /\ sent' = [sent EXCEPT ![w] = @ + 1]
        /\ bcInFlight' = {[to |-> j, msg |-> msgWithId] : j \in BcListeners(w)}
        /\ lsEvents' = {[to |-> j, key |-> key, from |-> msg.peerId, data |-> msgWithId] : j \in LsListeners(w)}
        /\ last' = [op |-> "envSend", inst |-> w, msg |-> msgWithId]
  /\ fired' = <<>>
  /\ UNCHANGED <<removed, isHost, roomId, faults, now, created, destroyed, remotePlayers, seenMessageIds, bcChannel, lsOK,
                 heartbeatInterval, cleanupInterval, timeouts, calls, store, lastHeard, joinHeard>>

\* a tab sends at an instant up to MaxEnvTime, once the timers due have fired
\* and the copies of the message before are handled or lost
envSend(w, msg) ==
  /\ IF w \in Insts THEN ~created[w] ELSE TRUE
  /\ BcListeners(w) \cup LsListeners(w) # {}
  /\ EnvTotal < MaxEnvMsgs
  /\ now <= MaxEnvTime
  /\ NoTimerDue
  /\ bcInFlight = {} /\ lsEvents = {}
  /\ envPost(w, msg)

\* the same tab sending a burst of messages, each with a fresh id
floodSend(w, msg) ==
  /\ IF w \in Insts THEN ~created[w] ELSE TRUE
  /\ BcListeners(w) \cup LsListeners(w) # {}
  /\ sent[w] < MaxFlood
  /\ NoTimerDue
  /\ bcInFlight = {} /\ lsEvents = {}
  /\ envPost(w, msg)

\* a tab w puts the n-th message of tab p on the transports once more, under the
\* id it had
redeliver(w, p, n) ==
  /\ w \notin Insts /\ w # p
  /\ n \in 1..sent[p]
  /\ sent[w] < MaxRedo
  /\ bcInFlight = {} /\ lsEvents = {}
  /\ LET msgWithId == WithId(LevelChange(p, 1), MsgId(p, n))
     IN /\ sent' = [sent EXCEPT ![w] = @ + 1]
        /\ bcInFlight' = {[to |-> j, msg |-> msgWithId] : j \in BcListeners(w)}
        /\ lsEvents' = {[to |-> j, key |-> StorageKey(w, sent[w] + 1), from |-> p,
                         data |-> msgWithId] : j \in LsListeners(w)}
        /\ last' = [op |-> "redeliver", inst |-> w, msg |-> msgWithId]
  /\ fired' = <<>>
  /\ UNCHANGED <<removed, isHost, roomId, faults, now, created, destroyed, remotePlayers, seenMessageIds, bcChannel, lsOK,
                 heartbeatInterval, cleanupInterval, timeouts, calls, store, lastHeard, joinHeard>>

\* the clock moves to the next deadline once every due timer has fired and every
\* message event has been handled or lost
advance(limit) ==
  /\ Deadlines # {}
  /\ NoTimerDue
  /\ bcInFlight = {} /\ lsEvents = {}
  /\ Min(Deadlines) <= limit
  /\ now' = Min(Deadlines)
  /\ fired' = <<>>
  /\ last' = [op |-> "advance", inst |-> "none", msg |-> NoMsg]
  /\ UNCHANGED <<removed, isHost, roomId, faults, created, destroyed, remotePlayers, seenMessageIds, bcChannel, lsOK,
                 heartbeatInterval, cleanupInterval, timeouts, sent, calls, bcInFlight,
                 lsEvents, store, lastHeard, joinHeard>>

\* the clock moves while copies of heartbeats of one sender are still under way
\* to one receiver
advanceLate(from, to, limit) ==
  /\ Deadlines # {}
  /\ NoTimerDue
  /\ bcInFlight # {} \/ lsEvents # {}
  /\ \A e \in bcInFlight : e.msg.peerId = from /\ e.to = to /\ e.msg.type = "heartbeat"
  /\ \A e \in lsEvents : e.from = from /\ e.to = to /\ e.data.type = "heartbeat"
  /\ Min(Deadlines) <= limit
  /\ now' = Min(Deadlines)
  /\ fired' = <<>>
  /\ last' = [op |-> "advanceLate", inst |-> "none", msg |-> NoMsg]
  /\ UNCHANGED <<removed, isHost, roomId, faults, created, destroyed, remotePlayers, seenMessageIds, bcChannel, lsOK,
                 heartbeatInterval, cleanupInterval, timeouts, sent, calls, bcInFlight,
                 lsEvents, store, lastHeard, joinHeard>>

\* ---------------------------------------------- raw values in the store
\* A value another page of the origin writes under a key of the room, as the
\* storage event hands it over in newValue: text that is not JSON, or the JSON
\* of a value.  A JavaScript value is null, a string or an object; an object is
\* a record of the properties it has.
JsNull == [is |-> "null"]
JsString == [is |-> "string"]
JsObject(o) == [is |-> "object", obj |-> o]
NotJson == [json |-> FALSE]
Json(v) == [json |-> TRUE, value |-> v]
Undefined == "undefined"

RawValues ==
  {NotJson,
   Json(JsNull),
   Json(JsObject([from |-> "c1"])),
   Json(JsObject([from |-> "c1", data |-> JsString])),
   Json(JsObject([from |-> "c1", data |-> JsNull])),
   Json(JsObject([from |-> "c1", data |-> JsObject([hello |-> "world"])])),
   Json(JsObject([from |-> "c1", data |-> JsObject([type |-> "heartbeat"])])),
   Json(JsObject([from |-> "c1", data |-> JsObject([type |-> "playerLeft"])])),
   Json(JsObject([from |-> "c1", data |-> JsObject([type |-> "levelChange"])])),
   Json(JsObject([from |-> "c1", data |-> JsObject([type |-> "playerUpdate", peerId |-> "a1"])]))}

\* reading a property: the value an object has for it, undefined otherwise
MsgFields == {"type", "peerId", "name", "color", "player", "level"}
Loose(o) == [f \in MsgFields |-> IF f \in DOMAIN o THEN o[f] ELSE Undefined]

\* the body of the storage handler's inner try block for newValue v: Dropped
\* when JSON.parse or a property access throws (which the catch swallows) and when
\* the handler returns early, the handling of the message otherwise
Dropped(rp, seen) == [rp |-> rp, seen |-> seen, fired |-> <<>>, reply |-> FALSE, peer |-> Undefined]

parseAndHandle(self, rp, seen, v, t) ==
  IF ~v.json THEN Dropped(rp, seen)                       \* JSON.parse throws
  ELSE IF v.value.is # "object" THEN Dropped(rp, seen)    \* null.from throws; a string has no from/data
  ELSE LET wrapper == v.value.obj
       IN IF "from" \in DOMAIN wrapper /\ wrapper.from = self THEN Dropped(rp, seen)
          ELSE IF "data" \notin DOMAIN wrapper THEN Dropped(rp, seen)   \* undefined._msgId throws
          ELSE IF wrapper.data.is = "null" THEN Dropped(rp, seen)       \* null._msgId throws
          ELSE IF wrapper.data.is = "string" THEN Dropped(rp, seen)     \* 'peerId' in "..." throws
          ELSE LET o == wrapper.data.obj
                   msg == Loose(o)
                   dup == "msgId" \in DOMAIN o /\ SeqHas(seen, o.msgId)
                   seen2 == IF "msgId" \in DOMAIN o THEN lsRemember(seen, o) ELSE seen
               IN IF dup THEN Dropped(rp, seen)
                  ELSE IF /\ msg.type = "playerUpdate" /\ "player" \notin DOMAIN o
                          /\ ~MapHas(rp, msg.peerId)
                  THEN Dropped(rp, seen2)                 \* msg.player.name throws
                  ELSE LET r == handleIncomingMessage(self, rp, msg, t)
                       IN [rp |-> r.rp, seen |-> seen2, fired |-> r.fired,
                           reply |-> r.reply, peer |-> msg.peerId]

\* this.storageHandler run on a storage event of the room whose newValue is v
storageHandlerRaw(i, v) ==
  /\ created[i] /\ lsOK[i]
  /\ LET r == IF destroyed[i] THEN Dropped(remotePlayers[i], seenMessageIds[i])
              ELSE parseAndHandle(i, remotePlayers[i], seenMessageIds[i], v, now)
     IN /\ remotePlayers' = [remotePlayers EXCEPT ![i] = r.rp]
        /\ seenMessageIds' = [seenMessageIds EXCEPT ![i] = r.seen]
        /\ fired' = r.fired
        /\ timeouts' = [timeouts EXCEPT ![i] =
                          IF r.reply THEN Append(@, Timeout(now, ReplyMs, "reply", r.peer)) ELSE @]
  /\ last' = [op |-> "storageHandlerRaw", inst |-> i, msg |-> NoMsg, raw |-> v]
  /\ UNCHANGED <<removed, isHost, roomId, now, created, destroyed, bcChannel, lsOK, heartbeatInterval, cleanupInterval,
                 sent, calls, bcInFlight, lsEvents, store, faults, lastHeard, joinHeard>>

\* the context of instance i changes: from now on the writes on the transports in
\* f throw (the channel got closed, the store's quota is used up), the others work
setFault(i, f) ==
  /\ faults[i] # f
  /\ faults' = [faults EXCEPT ![i] = f]
  /\ fired' = <<>>
  /\ last' = [op |-> "setFault", inst |-> i, msg |-> NoMsg]
  /\ UNCHANGED <<removed, isHost, roomId, now, created, destroyed, remotePlayers, seenMessageIds, bcChannel, lsOK,
                 heartbeatInterval, cleanupInterval, timeouts, sent, calls, bcInFlight,
                 lsEvents, store, lastHeard, joinHeard>>

\* ------------------------------------------------------- specifications
Self == "b1"
Transports == {<<TRUE, TRUE>>, <<TRUE, FALSE>>, <<FALSE, TRUE>>, <<FALSE, FALSE>>}

\* one instance and the tabs around it
Next ==
  \/ Construct(Self, TRUE, TRUE)
  \/ heartbeatTick(Self)
  \/ cleanupTick(Self)
  \/ \E k \in 1..Len(timeouts[Self]) : readyTimeout(Self, k)
  \/ \E k \in 1..Len(timeouts[Self]) : announceTimeout(Self, k)
  \/ \E k \in 1..Len(timeouts[Self]) : removeItemTimeout(Self, k)
  \/ \E e \in bcInFlight : bcOnMessage(e)
  \/ \E e \in lsEvents : storageHandler(e)
  \/ \E e \in bcInFlight : dropBC(e)
  \/ \E e \in lsEvents : dropLS(e)
  \/ \E w \in EnvPeers : \E msg \in EnvMsgs(w) : envSend(w, msg)
  \/ NoTimerDue /\ destroy(Self)
  \/ advance(MaxTime)

Spec == Init /\ [][Next]_vars

\* the instances of one room, created with any of the transports available, and
\* transports that deliver every copy
NextRoom ==
  \/ bcInFlight = {} /\ lsEvents = {} /\ now <= MaxJoinTime /\ \E i \in Insts : \E t \in Transports : Construct(i, t[1], t[2])
  \/ \E i \in Insts : heartbeatTick(i)
  \/ \E i \in Insts : cleanupTick(i)
  \/ \E i \in Insts : \E k \in 1..Len(timeouts[i]) : readyTimeout(i, k)
  \/ \E i \in Insts : \E k \in 1..Len(timeouts[i]) : announceTimeout(i, k)
  \/ \E i \in Insts : \E k \in 1..Len(timeouts[i]) : removeItemTimeout(i, k)
  \/ NoTimerDue /\ \E e \in bcInFlight : bcOnMessage(e)
  \/ NoTimerDue /\ \E e \in lsEvents : storageHandler(e)
  \/ NoTimerDue /\ \E i \in Insts : destroy(i)
  \/ advance(MaxRoomTime)

SpecRoom == Init /\ [][NextRoom]_vars

\* one instance, with at least one transport, under a burst of inbound messages
\* while its collaborator calls the outbound API
NextDedup ==
  \/ \E t \in Transports \ {<<FALSE, FALSE>>} : Construct(Self, t[1], t[2])
  \/ floodSend("a1", LevelChange("a1", 1))
  \/ sendPlayerUpdate(Self, PlayerState(OwnProfile(Self)))
  \/ \E lv \in Levels : sendLevelChange(Self, lv)
  \/ \E lv \in Levels : startGame(Self, lv)
  \/ \E e \in bcInFlight : bcOnMessage(e)
  \/ \E e \in lsEvents : storageHandler(e)

SpecDedup == Init /\ [][NextDedup]_vars

\* one instance under a burst of inbound messages of the tab a1, some of which
\* the tab c1 delivers once more: the oldest, the newest and the 100th most recent
NextTrim ==
  \/ \E t \in Transports \ {<<FALSE, FALSE>>} : Construct(Self, t[1], t[2])
  \/ floodSend("a1", LevelChange("a1", 1))
  \/ created[Self] /\ \E n \in {1, sent["a1"] - 99, sent["a1"]} : redeliver("c1", "a1", n)
  \/ \E e \in bcInFlight : bcOnMessage(e)
  \/ \E e \in lsEvents : storageHandler(e)

SpecTrim == Init /\ [][NextTrim]_vars

\* a collaborator calls between two timer callbacks and two message events
CallTime == NoTimerDue /\ bcInFlight = {} /\ lsEvents = {}

\* one instance and a tab that comes, goes and comes back: the tab sends up to
\* MaxRejoinMsgs messages, each right after a scan of the instance (or at its
\* construction), and every copy is handled
MaxRejoinTime == 4400
MaxRejoinMsgs == 4
RejoinMsgs ==
  {PlayerJoin("c1", OwnProfile("a1")), Heartbeat("c1", OwnProfile("a1")),
   PlayerUpdate("c1", PlayerState(OwnProfile("a1"))), PlayerLeft("c1")}

NextRejoin ==
  \/ Construct(Self, TRUE, TRUE)
  \/ heartbeatTick(Self)
  \/ cleanupTick(Self)
  \/ \E k \in 1..Len(timeouts[Self]) : readyTimeout(Self, k)
  \/ \E k \in 1..Len(timeouts[Self]) : announceTimeout(Self, k)
  \/ \E k \in 1..Len(timeouts[Self]) : removeItemTimeout(Self, k)
  \/ NoTimerDue /\ \E e \in bcInFlight : bcOnMessage(e)
  \/ NoTimerDue /\ \E e \in lsEvents : storageHandler(e)
  \/ CallTime /\ created[Self] /\ now % CleanupMs = 0 /\ sent["c1"] < MaxRejoinMsgs
       /\ \E msg \in RejoinMsgs : envPost("c1", msg)
  \/ advance(MaxRejoinTime)

SpecRejoin == Init /\ [][NextRejoin]_vars

\* the life of one instance (Subject) next to a second one that has both
\* transports (Observer), the two created together: construction, the timers,
\* the collaborator's calls of the outbound API, destruction
Subject == "a1"
Observer == "b1"

NextLife ==
  \/ now = 0 /\ \E t \in Transports : Construct(Subject, t[1], t[2])
  \/ now = 0 /\ Construct(Observer, TRUE, TRUE)
  \/ \E i \in Insts : heartbeatTick(i)
  \/ \E i \in Insts : cleanupTick(i)
  \/ \E i \in Insts : \E k \in 1..Len(timeouts[i]) : readyTimeout(i, k)
  \/ \E i \in Insts : \E k \in 1..Len(timeouts[i]) : announceTimeout(i, k)
  \/ \E i \in Insts : \E k \in 1..Len(timeouts[i]) : removeItemTimeout(i, k)
  \/ NoTimerDue /\ \E e \in bcInFlight : bcOnMessage(e)
  \/ NoTimerDue /\ \E e \in lsEvents : storageHandler(e)
  \/ CallTime /\ \E player \in PlayerInputs(OwnProfile(Subject)) : sendPlayerUpdate(Subject, player)
  \/ CallTime /\ \E lv \in Levels : sendLevelChange(Subject, lv)
  \/ CallTime /\ \E lv \in Levels : startGame(Subject, lv)
  \/ NoTimerDue /\ destroy(Subject)
  \/ advance(MaxLifeTime)

SpecLife == Init /\ [][NextLife]_vars

\* an instance (Subject) that is destroyed by MaxDestroyTime, next to one that
\* stays (Observer): each
\* copy of a message of the Subject is handled at once or lost, a copy of a
\* heartbeat may also be handled late, until MaxLateTime, in any order; the
\* Observer's messages are lost
MaxGoneTime == 8000
MaxLateTime == 4000
MaxDestroyTime == 400

GoneTimers ==
  \/ \E i \in Insts : heartbeatTick(i)
  \/ \E i \in Insts : cleanupTick(i)
  \/ \E i \in Insts : \E k \in 1..Len(timeouts[i]) : readyTimeout(i, k)
  \/ \E i \in Insts : \E k \in 1..Len(timeouts[i]) : announceTimeout(i, k)
  \/ \E i \in Insts : \E k \in 1..Len(timeouts[i]) : removeItemTimeout(i, k)
GoneEvents ==
  \/ NoTimerDue /\ \E e \in bcInFlight : e.to = Observer /\ bcOnMessage(e)
  \/ NoTimerDue /\ \E e \in lsEvents : e.to = Observer /\ storageHandler(e)
  \/ NoTimerDue /\ \E e \in bcInFlight : dropBC(e)
  \/ NoTimerDue /\ \E e \in lsEvents : dropLS(e)
GoneClock ==
  \/ advance(IF destroyed[Subject] THEN MaxGoneTime ELSE MaxDestroyTime)
  \/ advanceLate(Subject, Observer, IF destroyed[Subject] THEN MaxLateTime ELSE MaxDestroyTime)

NextGone ==
  \/ now = 0 /\ Construct(Subject, TRUE, TRUE)
  \/ now = 0 /\ Construct(Observer, TRUE, TRUE)
  \/ GoneTimers
  \/ GoneEvents
  \/ NoTimerDue /\ now <= MaxDestroyTime /\ destroy(Subject)
  \/ GoneClock

SpecGone ==
  /\ Init /\ [][NextGone]_vars
  /\ WF_vars(GoneTimers) /\ WF_vars(GoneEvents) /\ WF_vars(GoneClock)

\* two instances that stay alive, with a transport in common: every copy of a
\* join announcement is lost, a copy of a heartbeat may be lost up to MaxLossTime
\* and, later, as long as the copy on the other transport is still under way
MaxLossTime == 800
MaxDiscoverTime == 1200

MayLose(type, twin) == type = "playerJoin" \/ now <= MaxLossTime \/ twin

DiscoverTimers ==
  \/ \E i \in Insts : heartbeatTick(i)
  \/ \E i \in Insts : \E k \in 1..Len(timeouts[i]) : readyTimeout(i, k)
  \/ \E i \in Insts : \E k \in 1..Len(timeouts[i]) : announceTimeout(i, k)
  \/ \E i \in Insts : \E k \in 1..Len(timeouts[i]) : removeItemTimeout(i, k)
DiscoverEvents ==
  \/ NoTimerDue /\ \E e \in bcInFlight : e.msg.type # "playerJoin" /\ bcOnMessage(e)
  \/ NoTimerDue /\ \E e \in lsEvents : e.data.type # "playerJoin" /\ storageHandler(e)
  \/ NoTimerDue /\ \E e \in bcInFlight :
       /\ MayLose(e.msg.type, \E f \in lsEvents : f.to = e.to /\ f.data.msgId = e.msg.msgId)
       /\ dropBC(e)
  \/ NoTimerDue /\ \E e \in lsEvents :
       /\ MayLose(e.data.type, \E f \in bcInFlight : f.to = e.to /\ f.msg.msgId = e.data.msgId)
       /\ dropLS(e)
DiscoverClock == advance(MaxDiscoverTime)

NextDiscover ==
  \/ now = 0 /\ \E t \in Transports \ {<<FALSE, FALSE>>} : Construct(Subject, t[1], t[2])
  \/ now = 0 /\ Construct(Observer, TRUE, TRUE)
  \/ DiscoverTimers
  \/ DiscoverEvents
  \/ DiscoverClock

SpecDiscover ==
  /\ Init /\ [][NextDiscover]_vars
  /\ WF_vars(DiscoverTimers) /\ WF_vars(DiscoverEvents) /\ WF_vars(DiscoverClock)

\* the sends of one instance (Subject) whose transports fail at some instant, next to
\* a second one that has both transports (Observer)
NextSend ==
  \/ now = 0 /\ \E t \in Transports : Construct(Subject, t[1], t[2])
  \/ now = 0 /\ Construct(Observer, TRUE, TRUE)
  \/ \E i \in Insts : heartbeatTick(i)
  \/ \E i \in Insts : \E k \in 1..Len(timeouts[i]) : readyTimeout(i, k)
  \/ \E i \in Insts : \E k \in 1..Len(timeouts[i]) : announceTimeout(i, k)
  \/ \E i \in Insts : \E k \in 1..Len(timeouts[i]) : removeItemTimeout(i, k)
  \/ NoTimerDue /\ \E e \in bcInFlight : bcOnMessage(e)
  \/ NoTimerDue /\ \E e \in lsEvents : storageHandler(e)
  \/ CallTime /\ sendPlayerUpdate(Subject, PlayerState(OwnProfile(Subject)))
  \/ CallTime /\ \E lv \in Levels : sendLevelChange(Subject, lv)
  \/ CallTime /\ \E lv \in Levels : startGame(Subject, lv)
  \/ CallTime /\ faults[Subject] = {} /\ \E f \in SUBSET {"bc", "ls"} : setFault(Subject, f)
  \/ advance(MaxSendTime)

SpecSend == Init /\ [][NextSend]_vars

\* one instance, the tabs around it, and a page that writes arbitrary values
\* under keys of the room
NextRaw ==
  \/ Construct(Self, TRUE, TRUE)
  \/ \E w \in EnvPeers : \E msg \in EnvMsgs(w) : envSend(w, msg)
  \/ \E e \in bcInFlight : bcOnMessage(e)
  \/ \E e \in lsEvents : storageHandler(e)
  \/ \E v \in RawValues : storageHandlerRaw(Self, v)

SpecRaw == Init /\ [][NextRaw]_vars

\* two instances, each constructed with a room identifier of its own choice
InitRooms ==
  /\ InitState
  /\ roomId \in [Peers -> RoomIds] /\ roomId["c1"] = Room1
  /\ isHost = [i \in Insts |-> FALSE]

NextTwoRooms ==
  \/ now = 0 /\ \E i \in Insts : \E t \in Transports : Construct(i, t[1], t[2])
  \/ \E i \in Insts : heartbeatTick(i)
  \/ \E i \in Insts : \E k \in 1..Len(timeouts[i]) : readyTimeout(i, k)
  \/ \E i \in Insts : \E k \in 1..Len(timeouts[i]) : announceTimeout(i, k)
  \/ NoTimerDue /\ \E e \in bcInFlight : bcOnMessage(e)
  \/ NoTimerDue /\ \E e \in lsEvents : storageHandler(e)
  \/ CallTime /\ \E lv \in Levels : startGame(Subject, lv)
  \/ advance(MaxRoomsTime)

SpecTwoRooms == InitRooms /\ [][NextTwoRooms]_vars

\* Two instances that differ in isHost, run side by side on the same inputs: the
\* host takes a step (a constructor call, a timer callback, a message event of the
\* tab c1, a call of the outbound API), then the guest takes the same step; what
\* the two send to each other is lost, so that each sees c1's messages only.
Host == "a1"
Guest == "b1"
InstanceOps == {"construct", "heartbeat", "ready", "announceJoin", "reply", "removeItem",
                "bcOnMessage", "storageHandler", "sendPlayerUpdate", "sendLevelChange",
                "startGame"}
HostMsgs == {PlayerJoin("c1", OwnProfile("b1")), StartGame("c1", 1), LevelChange("c1", 1)}

InitHost ==
  /\ InitState
  /\ roomId = [p \in Peers |-> Room1]
  /\ isHost = [i \in Insts |-> i = Host]

GuestTurn == last.inst = Host /\ last.op \in InstanceOps
HostTurn ==
  /\ ~GuestTurn
  /\ \A e \in bcInFlight : e.msg.peerId \notin Insts
  /\ \A e \in lsEvents : e.from \notin Insts

NextHost ==
  \/ HostTurn /\ \E t \in Transports \ {<<FALSE, FALSE>>} : Construct(Host, t[1], t[2])
  \/ GuestTurn /\ last.op = "construct" /\ Construct(Guest, bcChannel[Host], lsOK[Host])
  \/ HostTurn /\ heartbeatTick(Host)
  \/ GuestTurn /\ last.op = "heartbeat" /\ heartbeatTick(Guest)
  \/ HostTurn /\ \E k \in 1..Len(timeouts[Host]) : readyTimeout(Host, k)
  \/ GuestTurn /\ last.op = "ready" /\ \E k \in 1..Len(timeouts[Guest]) : readyTimeout(Guest, k)
  \/ HostTurn /\ \E k \in 1..Len(timeouts[Host]) : announceTimeout(Host, k)
  \/ GuestTurn /\ last.op \in {"announceJoin", "reply"}
       /\ \E k \in 1..Len(timeouts[Guest]) : announceTimeout(Guest, k)
  \/ HostTurn /\ \E k \in 1..Len(timeouts[Host]) : removeItemTimeout(Host, k)
  \/ GuestTurn /\ last.op = "removeItem"
       /\ \E k \in 1..Len(timeouts[Guest]) : removeItemTimeout(Guest, k)
  \/ HostTurn /\ NoTimerDue /\ \E e \in bcInFlight : e.to = Host /\ bcOnMessage(e)
  \/ GuestTurn /\ last.op = "bcOnMessage"
       /\ \E e \in bcInFlight : e.to = Guest /\ e.msg = last.msg /\ bcOnMessage(e)
  \/ HostTurn /\ NoTimerDue /\ \E e \in lsEvents : e.to = Host /\ storageHandler(e)
  \/ GuestTurn /\ last.op = "storageHandler"
       /\ \E e \in lsEvents : e.to = Guest /\ e.data = last.msg /\ storageHandler(e)
  \/ HostTurn /\ CallTime /\ sendPlayerUpdate(Host, PlayerState(OwnProfile(Host)))
  \/ GuestTurn /\ last.op = "sendPlayerUpdate"
       /\ sendPlayerUpdate(Guest, PlayerState(OwnProfile(Guest)))
  \/ HostTurn /\ CallTime /\ \E lv \in Levels : startGame(Host, lv)
  \/ GuestTurn /\ last.op = "startGame" /\ startGame(Guest, last.msg.level)
  \/ ~GuestTurn /\ \E e \in bcInFlight : e.msg.peerId \in Insts /\ dropBC(e)
  \/ ~GuestTurn /\ \E e \in lsEvents : e.from \in Insts /\ dropLS(e)
  \/ HostTurn /\ CallTime /\ created[Guest] /\ sent["c1"] < MaxEnvMsgs
       /\ \E msg \in HostMsgs : envPost("c1", msg)
  \/ HostTurn /\ advance(MaxHostTime)

SpecHost == InitHost /\ [][NextHost]_vars

\* the same pair of instances, both with the flag clear and both transports, fed
\* by the tab c1; every copy one of them takes from one transport the other takes
\* from the other transport.  c1 either opens with a burst of MaxFlood messages
\* right after the construction or sends up to MaxMixed messages of any type
\* while the clock runs, or both
MaxTransportTime == 400
MaxMixed == 2
MixedMsgs ==
  {Heartbeat("c1", OwnProfile("a1")), PlayerJoin("c1", OwnProfile("b1")),
   PlayerUpdate("c1", PlayerState(OwnProfile("a1"))), PlayerLeft("c1"),
   LevelChange("c1", 1), StartGame("c1", 1)}
BurstDone == sent["c1"] >= MaxFlood
BurstRunning == now = 0 /\ sent["c1"] > 0 /\ ~BurstDone
MixedSent == IF BurstDone THEN sent["c1"] - MaxFlood ELSE sent["c1"]

NextTransport ==
  \/ HostTurn /\ Construct(Host, TRUE, TRUE)
  \/ GuestTurn /\ last.op = "construct" /\ Construct(Guest, TRUE, TRUE)
  \/ HostTurn /\ heartbeatTick(Host)
  \/ GuestTurn /\ last.op = "heartbeat" /\ heartbeatTick(Guest)
  \/ HostTurn /\ \E k \in 1..Len(timeouts[Host]) : readyTimeout(Host, k)
  \/ GuestTurn /\ last.op = "ready" /\ \E k \in 1..Len(timeouts[Guest]) : readyTimeout(Guest, k)
  \/ HostTurn /\ \E k \in 1..Len(timeouts[Host]) : announceTimeout(Host, k)
  \/ GuestTurn /\ last.op \in {"announceJoin", "reply"}
       /\ \E k \in 1..Len(timeouts[Guest]) : announceTimeout(Guest, k)
  \/ HostTurn /\ NoTimerDue /\ \E e \in bcInFlight : e.to = Host /\ bcOnMessage(e)
  \/ GuestTurn /\ last.op = "bcOnMessage"
       /\ \E e \in lsEvents : e.to = Guest /\ e.data = last.msg /\ storageHandler(e)
  \/ HostTurn /\ NoTimerDue /\ \E e \in lsEvents : e.to = Host /\ storageHandler(e)
  \/ GuestTurn /\ last.op = "storageHandler"
       /\ \E e \in bcInFlight : e.to = Guest /\ e.msg = last.msg /\ bcOnMessage(e)
  \/ ~GuestTurn /\ \E e \in bcInFlight : e.msg.peerId \in Insts /\ dropBC(e)
  \/ ~GuestTurn /\ \E e \in lsEvents : e.from \in Insts /\ dropLS(e)
  \/ HostTurn /\ created[Guest] /\ now = 0 /\ floodSend("c1", LevelChange("c1", 1))
  \/ HostTurn /\ CallTime /\ created[Guest] /\ (now > 0 \/ BurstDone) /\ MixedSent < MaxMixed
       /\ \E msg \in MixedMsgs : envPost("c1", msg)
  \/ HostTurn /\ ~BurstRunning /\ advance(MaxTransportTime)

SpecTransport == Init /\ [][NextTransport]_vars

\* ================================================================ claims
CountCb(f, name) == Cardinality({k \in 1..Len(f) : f[k].cb = name})
StatusCount(f, kind) ==
  Cardinality({k \in 1..Len(f) : f[k].cb = "onStatusChange" /\ f[k].arg[1] = kind})

\* the last step was a transport handler running
IsDelivery == last.op \in {"bcOnMessage", "storageHandler"}
\* ... for a message of another peer that got past the destroyed check and the dedup
Accepted == IsDelivery /\ last.processed /\ last.msg.peerId # last.inst

\* C1: destroy() on a live instance puts one playerLeft carrying its own id on
\* every available transport: towards every other instance listening on the
\* channel if its channel is open, towards every storage listener if its
\* localStorage works.
C1_DestroyAnnouncesLeft ==
  last.op = "destroy" =>
    LET i == last.inst
    IN /\ bcChannel[i] =>
            \A j \in BcListeners(i) :
               Cardinality({e \in bcInFlight : e.to = j /\ e.msg.type = "playerLeft"
                                               /\ e.msg.peerId = i}) = 1
       /\ lsOK[i] =>
            \A j \in LsListeners(i) :
               Cardinality({e \in lsEvents : e.to = j /\ e.data.type = "playerLeft"
                                             /\ e.data.peerId = i}) = 1

\* C2: an accepted playerJoin or heartbeat fires the "peer joined" status and the
\* connection-count and player-list notifications once each when the peer was
\* not registered before it, and none of them when it was; nothing else fires
\* the "peer joined" status.
C2_IdempotentJoin ==
  /\ (Accepted /\ last.msg.type \in {"playerJoin", "heartbeat"}) =>
       LET n == IF last.known THEN 0 ELSE 1
       IN /\ StatusCount(fired, "joined") = n
          /\ CountCb(fired, "onConnectionChange") = n
          /\ CountCb(fired, "onPlayerListChange") = n
  /\ StatusCount(fired, "joined") > 0 =>
       Accepted /\ last.msg.type \in {"playerJoin", "heartbeat"} /\ ~last.known

C2_Witness ==
  Accepted /\ last.msg.type \in {"playerJoin", "heartbeat"} /\ last.known /\ fired = <<>>

\* C3: a handler run for a message of another peer whose id is already in the
\* dedup set changes neither the registry, the dedup set, the pending timeouts
\* nor fires a callback; a run for an id not yet in the set records the id and
\* hands the message on.
C3_DedupOnce ==
  [][\A i \in Insts :
       (last'.op \in {"bcOnMessage", "storageHandler"} /\ last'.inst = i /\ ~destroyed[i]
        /\ last'.msg.peerId # i) =>
         IF SeqHas(seenMessageIds[i], last'.msg.msgId)
         THEN /\ remotePlayers'[i] = remotePlayers[i]
              /\ seenMessageIds'[i] = seenMessageIds[i]
              /\ timeouts'[i] = timeouts[i]
              /\ fired' = <<>>
              /\ ~last'.processed
         ELSE /\ SeqHas(seenMessageIds'[i], last'.msg.msgId)
              /\ last'.processed]_vars

C3_Witness ==
  /\ IsDelivery /\ ~last.processed /\ last.msg.peerId # last.inst
  /\ ~destroyed[last.inst]
  /\ SeqHas(seenMessageIds[last.inst], last.msg.msgId)

\* C4: no instance ever registers its own id; a message carrying the receiver's
\* own id fires no callback and schedules no reply on either transport, and on
\* the store relay a record written under the receiver's id is discarded before
\* the dedup.
C4_SelfFiltered ==
  /\ \A i \in Insts : ~MapHas(remotePlayers[i], i)
  /\ (IsDelivery /\ last.msg.peerId = last.inst) =>
       /\ fired = <<>>
       /\ \A k \in 1..Len(timeouts[last.inst]) :
            timeouts[last.inst][k].fn = "reply" => timeouts[last.inst][k].key # last.inst
  /\ (last.op = "storageHandler" /\ last.msg.peerId = last.inst) => ~last.processed

C4_Witness == last.op = "bcOnMessage" /\ last.msg.peerId = last.inst /\ last.processed

\* C5: between handler runs the dedup set of an instance never holds more than
\* 200 ids, however many distinct ids arrived and on whichever transports.
C5_DedupBounded == \A i \in Insts : Len(seenMessageIds[i]) <= 200

\* more than 200 distinct ids were handled and the set was cut back
C5_Witness ==
  /\ sent["a1"] > 200
  /\ IsDelivery /\ last.processed /\ last.msg.msgId = MsgId("a1", 201)
  /\ Len(seenMessageIds[Self]) = 100

\* the peers the step removes from instance i's registry
Removed(i) == MapKeys(remotePlayers[i]) \ MapKeys(remotePlayers[i])'
\* the step is a run of instance i's liveness scan
IsScan(i) == last'.op = "cleanup" /\ last'.inst = i /\ ~destroyed[i]
\* callback name was invoked with argument arg
FiredWith(f, name, arg) == \E k \in 1..Len(f) : f[k].cb = name /\ f[k].arg = arg

\* C6: a liveness scan runs at a multiple of 2000 ms after construction, keeps
\* the entries whose lastSeen is at most 3000 ms old in their order and removes
\* every other, fires one "disconnected" status and one playerLeft per removed
\* peer, and fires the connection-count and the player-list notification once
\* each (with the new count and list) if it removed a peer, and not at all
\* otherwise.
C6_ScanRemovesStale ==
  [][\A i \in Insts : IsScan(i) =>
       LET old == remotePlayers[i]
           stale == {k \in 1..Len(old) : now - old[k].lastSeen > 3000}
           n == IF stale = {} THEN 0 ELSE 1
       IN /\ now > 0 /\ now % 2000 = 0
          /\ remotePlayers'[i] = SelectSeq(old, LAMBDA e : now - e.lastSeen <= 3000)
          /\ StatusCount(fired', "disconnected") = Cardinality(stale)
          /\ CountCb(fired', "onMessage") = Cardinality(stale)
          /\ \A k \in stale :
               /\ FiredWith(fired', "onStatusChange", <<"disconnected", old[k].name>>)
               /\ FiredWith(fired', "onMessage", PlayerLeft(old[k].id))
          /\ CountCb(fired', "onConnectionChange") = n
          /\ CountCb(fired', "onPlayerListChange") = n
          /\ stale # {} =>
               /\ FiredWith(fired', "onConnectionChange", Len(remotePlayers'[i]))
               /\ FiredWith(fired', "onPlayerListChange", remotePlayers'[i])]_vars

\* two peers expired in one scan
C6_Witness ==
  /\ last.op = "cleanup"
  /\ StatusCount(fired, "disconnected") = 2
  /\ CountCb(fired, "onConnectionChange") = 1
  /\ remotePlayers[last.inst] = <<>>

\* the scan of instance i removes peer p and tells of it once
EvictsOnce(i, p) ==
  /\ Cardinality({k \in 1..Len(fired') : fired'[k].cb = "onMessage"
                                          /\ fired'[k].arg = PlayerLeft(p)}) = 1
  /\ FiredWith(fired', "onStatusChange", <<"disconnected", MapGet(remotePlayers[i], p).name>>)
  /\ StatusCount(fired', "disconnected") = Cardinality(Removed(i))

Live(i) == created[i] /\ ~destroyed[i]

\* instance b accepted its first playerJoin of instance a at least 250 ms ago and both
\* are running
JoinSettled(a, b) ==
  /\ a # b /\ Live(a) /\ Live(b)
  /\ joinHeard[b][a].at >= 0
  /\ now >= joinHeard[b][a].at + 250

\* each of the two lists the other and nobody else
MutuallyListed(a, b) ==
  /\ MapKeys(remotePlayers[b]) = {a}
  /\ MapKeys(remotePlayers[a]) = {b}
  /\ Len(remotePlayers[a]) = 1 /\ Len(remotePlayers[b]) = 1

\* C8 as stated: 250 ms after B accepted its first playerJoin of A, B lists A,
\* B has sent its own join in reply, A lists B, and each side counts one peer.
C8_Original ==
  \A a \in Insts : \A b \in Insts :
    JoinSettled(a, b) => MutuallyListed(a, b) /\ joinHeard[b][a].replied

\* C8 amended: 250 ms after B accepted its first playerJoin of A, each lists the other
\* and counts one peer, and B has sent its own join in reply exactly if A was
\* not in B's list when the join arrived.
C8_JoinHandshake ==
  \A a \in Insts : \A b \in Insts :
    JoinSettled(a, b) =>
      /\ MutuallyListed(a, b)
      /\ joinHeard[b][a].replied <=> ~joinHeard[b][a].known

\* b1 learnt of a1 from a1's join, replied, and the two list each other
C8_Witness ==
  /\ JoinSettled("a1", "b1")
  /\ ~joinHeard["b1"]["a1"].known /\ joinHeard["b1"]["a1"].replied
  /\ MutuallyListed("a1", "b1")

\* C9 as stated: a live instance has an entry for a peer exactly when it
\* received a message from that peer within the last 3000 ms.
C9_Original ==
  \A i \in Insts : \A p \in Peers \ {i} :
    Live(i) =>
      (MapHas(remotePlayers[i], p)
         <=> (lastHeard[i][p].any >= 0 /\ now - lastHeard[i][p].any <= 3000))

\* C9 amended: a live instance has an entry for every peer whose last playerJoin,
\* heartbeat or playerUpdate (with no playerLeft after it) it accepted within
\* the last 3000 ms; an entry carries the time of that message as lastSeen; that
\* time is at most 5000 ms back, and at most 3000 ms back right after a scan.
C9_EntryWithinWindow ==
  \A i \in Insts : \A p \in Peers \ {i} :
    Live(i) =>
      /\ (lastHeard[i][p].alive >= 0 /\ now - lastHeard[i][p].alive <= 3000)
           => MapHas(remotePlayers[i], p)
      /\ MapHas(remotePlayers[i], p) =>
           /\ MapGet(remotePlayers[i], p).lastSeen = lastHeard[i][p].alive
           /\ now - MapGet(remotePlayers[i], p).lastSeen <= 5000
           /\ (last.op = "cleanup" /\ last.inst = i)
                => now - MapGet(remotePlayers[i], p).lastSeen <= 3000

\* an entry between the end of the window and the scan that will remove it
C9_Witness ==
  /\ Live(Self)
  /\ MapHas(remotePlayers[Self], "a1")
  /\ now - MapGet(remotePlayers[Self], "a1").lastSeen > 3000
  /\ last.op = "advance"

\* the step is instance i accepting a message of another peer
IsAccept(i) ==
  /\ last'.op \in {"bcOnMessage", "storageHandler"} /\ last'.inst = i
  /\ last'.processed /\ last'.msg.peerId # i
\* the step leaves the entries of the peers other than p as they are
OthersKept(i, p) ==
  \A q \in Peers \ {p} :
    /\ MapHas(remotePlayers'[i], q) <=> MapHas(remotePlayers[i], q)
    /\ MapHas(remotePlayers[i], q) => MapGet(remotePlayers'[i], q) = MapGet(remotePlayers[i], q)

C11_Original ==
  (Accepted /\ last.msg.type \in {"playerJoin", "heartbeat", "playerUpdate"} /\ ~last.known) =>
    /\ StatusCount(fired, "joined") = 1
    /\ CountCb(fired, "onConnectionChange") = 1
    /\ CountCb(fired, "onPlayerListChange") = 1

\* C11 amended: such a message registers the peer and fires the connection-count
\* and player-list notifications once each, with the new count and list; the
\* "peer joined" status (with the peer's name) fires once for a playerJoin or
\* heartbeat and not at all for a playerUpdate.
C11_FirstMessageNotifies ==
  (Accepted /\ last.msg.type \in {"playerJoin", "heartbeat", "playerUpdate"} /\ ~last.known) =>
    LET rp == remotePlayers[last.inst]
    IN /\ MapHas(rp, last.msg.peerId)
       /\ CountCb(fired, "onStatusChange") = IF last.msg.type = "playerUpdate" THEN 0 ELSE 1
       /\ last.msg.type # "playerUpdate" =>
            FiredWith(fired, "onStatusChange", <<"joined", last.msg.name>>)
       /\ CountCb(fired, "onConnectionChange") = 1
       /\ CountCb(fired, "onPlayerListChange") = 1
       /\ FiredWith(fired, "onConnectionChange", Len(rp))
       /\ FiredWith(fired, "onPlayerListChange", rp)

\* a playerUpdate registered its sender: notifications without the status
C11_Witness ==
  /\ Accepted /\ last.msg.type = "playerUpdate" /\ ~last.known
  /\ MapHas(remotePlayers[last.inst], last.msg.peerId)
  /\ CountCb(fired, "onConnectionChange") = 1
  /\ StatusCount(fired, "joined") = 0

\* C12: an accepted playerLeft removes its sender from the registry whatever the
\* entry's lastSeen and leaves the other entries alone; it fires the "left"
\* status, with the name the entry held, exactly if the sender was registered,
\* and the connection-count and player-list notifications (new count and list)
\* once each in both cases.
C12_PlayerLeftRemoves ==
  [][\A i \in Insts : (IsAccept(i) /\ last'.msg.type = "playerLeft") =>
       LET p == last'.msg.peerId
           old == remotePlayers[i]
           new == remotePlayers[i]'
       IN /\ ~MapHas(new, p)
          /\ OthersKept(i, p)
          /\ CountCb(fired', "onStatusChange") = IF MapHas(old, p) THEN 1 ELSE 0
          /\ MapHas(old, p) =>
               FiredWith(fired', "onStatusChange", <<"left", MapGet(old, p).name>>)
          /\ CountCb(fired', "onConnectionChange") = 1
          /\ CountCb(fired', "onPlayerListChange") = 1
          /\ FiredWith(fired', "onConnectionChange", Len(new))
          /\ FiredWith(fired', "onPlayerListChange", new)]_vars

\* a registered peer left, some time after the instance was created
C12_Witness ==
  /\ Accepted /\ last.msg.type = "playerLeft" /\ last.known
  /\ now > 0
  /\ StatusCount(fired, "left") = 1
  /\ ~MapHas(remotePlayers[last.inst], last.msg.peerId)

\* the step puts nothing of instance i on a transport
SendsNothing(i) ==
  /\ sent'[i] = sent[i]
  /\ {e \in bcInFlight' : e.msg.peerId = i} \subseteq bcInFlight
  /\ {e \in lsEvents' : e.from = i} \subseteq lsEvents
  /\ {r \in store' : r.from = i} \subseteq store

\* C13: once an instance is destroyed its registry is empty and stays so, no
\* step of the instance (a pending timer, a message event, a call of the
\* outbound API) fires a callback, and nothing of the instance is put on the
\* channel or into the store.
C13_DestroyIsTerminal ==
  /\ [](\A i \in Insts : destroyed[i] => remotePlayers[i] = <<>>)
  /\ [][\A i \in Insts : destroyed[i] =>
          /\ destroyed'[i]
          /\ remotePlayers'[i] = <<>>
          /\ last'.inst = i => fired' = <<>>
          /\ SendsNothing(i)]_vars

\* the collaborator called sendPlayerUpdate on the destroyed instance
C13_Witness ==
  /\ destroyed[Subject] /\ last.inst = Subject /\ last.op = "sendPlayerUpdate"
  /\ fired = <<>> /\ remotePlayers[Subject] = <<>>

\* C14: an accepted playerUpdate, playerLeft or levelChange is handed to
\* onMessage once, as received, and fires no onGameStart; an accepted startGame
\* fires onGameStart once with its level and no onMessage; an accepted heartbeat
\* or playerJoin fires neither.
C14_CallbackDispatch ==
  Accepted =>
    LET m == last.msg
    IN /\ m.type \in {"playerUpdate", "playerLeft", "levelChange"} =>
            /\ CountCb(fired, "onMessage") = 1
            /\ FiredWith(fired, "onMessage", m)
            /\ CountCb(fired, "onGameStart") = 0
       /\ m.type = "startGame" =>
            /\ CountCb(fired, "onGameStart") = 1
            /\ FiredWith(fired, "onGameStart", m.level)
            /\ CountCb(fired, "onMessage") = 0
       /\ m.type \in {"heartbeat", "playerJoin"} =>
            /\ CountCb(fired, "onMessage") = 0
            /\ CountCb(fired, "onGameStart") = 0

C14_Witness ==
  /\ Accepted /\ last.msg.type = "startGame"
  /\ fired = <<Cb("onGameStart", last.msg.level)>>

\* the step changes which peers instance i has registered
MembershipChanges(i) == MapKeys(remotePlayers[i])' # MapKeys(remotePlayers[i])
\* the step fires onConnectionChange and onPlayerListChange once each, with the
\* size and the entries of instance i's registry after the step
NotifiesMembership(i) ==
  /\ last'.inst = i
  /\ CountCb(fired', "onConnectionChange") = 1
  /\ CountCb(fired', "onPlayerListChange") = 1
  /\ FiredWith(fired', "onConnectionChange", Len(remotePlayers'[i]))
  /\ FiredWith(fired', "onPlayerListChange", remotePlayers'[i])

\* C15 as stated: every step that adds a peer to an instance's registry or
\* removes one from it fires the two notifications with the new size and list.
C15_Original ==
  [][\A i \in Insts : MembershipChanges(i) => NotifiesMembership(i)]_vars

\* C15 amended: so does every such step other than destroy(); destroy() empties
\* the registry and fires nothing.
C15_MembershipNotified ==
  [][\A i \in Insts :
       /\ (MembershipChanges(i) /\ last'.op # "destroy") => NotifiesMembership(i)
       /\ (last'.op = "destroy" /\ last'.inst = i) =>
            remotePlayers'[i] = <<>> /\ fired' = <<>>]_vars

\* a scan removed one peer and kept another
C15_Witness ==
  /\ last.op = "cleanup"
  /\ Len(remotePlayers[last.inst]) = 1
  /\ FiredWith(fired, "onConnectionChange", 1)
  /\ FiredWith(fired, "onPlayerListChange", remotePlayers[last.inst])

\* the player object passed to one of sender's sendPlayerUpdate calls has, field
\* by field, the values of player
WasSent(sender, player) ==
  \E k \in 1..Len(calls) :
    /\ calls[k].op = "sendPlayerUpdate"
    /\ calls[k].inst = sender
    /\ DOMAIN player = {"x", "y", "vx", "vy", "width", "height", "onGround", "color",
                        "name", "isDead", "hasWon", "deaths"}
    /\ \A f \in DOMAIN player : player[f] = calls[k].arg[1][f]

\* C16: when an instance handles a playerUpdate that another instance sent with
\* sendPlayerUpdate, its onMessage fires once with that message, the message
\* carries the sender's id and the player fields passed to the call, and its
\* registry entry for the sender has lastSeen equal to the time of the handling.
C16_PlayerUpdateDelivered ==
  (Accepted /\ last.msg.type = "playerUpdate" /\ IsInstance(last.msg.peerId)) =>
     /\ CountCb(fired, "onMessage") = 1
     /\ FiredWith(fired, "onMessage", last.msg)
     /\ WasSent(last.msg.peerId, last.msg.player)
     /\ MapHas(remotePlayers[last.inst], last.msg.peerId)
     /\ MapGet(remotePlayers[last.inst], last.msg.peerId).lastSeen = now

\* the observer handled, through the store, the update the subject sent in mid-jump
C16_Witness ==
  /\ last.op = "storageHandler" /\ last.processed
  /\ last.inst = Observer /\ last.msg.type = "playerUpdate" /\ last.msg.peerId = Subject
  /\ last.msg.player.x = 40 /\ ~last.msg.player.onGround
  /\ now > 0

\* the step puts message m of instance i on every transport i has: a copy for
\* every instance listening on the channel, a record in the store and an event
\* for every instance listening to the store
PutsOnWire(i, m) ==
  /\ bcChannel'[i] =>
       \A j \in Insts \ {i} :
         (created[j] /\ bcChannel[j] /\ ~destroyed[j]) =>
           [to |-> j, msg |-> m] \in bcInFlight' \ bcInFlight
  /\ lsOK'[i] =>
       /\ \E r \in store' \ store : r.data = m
       /\ \A j \in Insts \ {i} :
            (created[j] /\ lsOK[j] /\ ~destroyed[j]) =>
              \E e \in lsEvents' \ lsEvents : e.to = j /\ e.data = m

\* the heartbeat of instance i stamped with its next message id
NextHeartbeat(i) ==
  [type |-> "heartbeat", peerId |-> i, name |-> OwnProfile(i).name,
   color |-> OwnProfile(i).color, msgId |-> <<i, sent[i] + 1>>]

\* C17: an instance constructed at 0 and not destroyed has its next heartbeat
\* due at a multiple of 400 ms no more than 400 ms ahead, and the clock does not
\* pass it; when it is due the instance puts one heartbeat with its own id, name
\* and color on its transports, with any number of registered peers; a destroyed
\* instance has no heartbeat pending and sends none.
C17_HeartbeatEvery400 ==
  /\ [](\A i \in Insts :
          /\ Live(i) =>
               /\ heartbeatInterval[i] > 0 /\ heartbeatInterval[i] % 400 = 0
               /\ now <= heartbeatInterval[i] /\ heartbeatInterval[i] <= now + 400
          /\ (created[i] /\ destroyed[i]) => heartbeatInterval[i] < 0)
  /\ [][\A i \in Insts :
          /\ (Live(i) /\ now' > now) => now' <= heartbeatInterval[i]
          /\ (last'.op = "heartbeat" /\ last'.inst = i) =>
               /\ Live(i) /\ now = heartbeatInterval[i]
               /\ heartbeatInterval'[i] = now + 400
               /\ sent'[i] = sent[i] + 1
               /\ PutsOnWire(i, NextHeartbeat(i))]_vars

\* the third heartbeat of an instance that is alone in the room
C17_Witness ==
  /\ last.op = "heartbeat" /\ last.inst = Subject /\ now = 1200
  /\ remotePlayers[Subject] = <<>>
  /\ \E r \in store : r.data.type = "heartbeat" /\ r.data.msgId[1] = Subject

\* the join announcement of instance i stamped with its next message id
NextJoin(i) ==
  [type |-> "playerJoin", peerId |-> i, name |-> OwnProfile(i).name,
   color |-> OwnProfile(i).color, msgId |-> <<i, sent[i] + 1>>]

\* instance i has a scheduled announcement pending for instant t
AnnouncePending(i, t) ==
  \E k \in 1..Len(timeouts[i]) : timeouts[i][k].fn = "announceJoin" /\ timeouts[i][k].at = t

\* C18: an instance constructed at 0 puts a join announcement on its transports
\* in the constructor; while it lives, its announcements for 200, 600, 1200 and
\* 2500 ms are pending until those instants, the clock does not pass a pending
\* one, and each one, when its time has come, puts one more join announcement on
\* the transports; a scheduled announcement that runs after destroy() puts
\* nothing on a transport.
C18_FiveAnnouncements ==
  /\ [](\A i \in Insts : \A t \in {200, 600, 1200, 2500} :
          /\ (Live(i) /\ now < t) => AnnouncePending(i, t)
          /\ (created[i] /\ now > t) => ~AnnouncePending(i, t))
  /\ [][\A i \in Insts :
          /\ (last'.op = "construct" /\ last'.inst = i) =>
               /\ sent'[i] = sent[i] + 1
               /\ PutsOnWire(i, NextJoin(i))
          /\ (last'.op = "announceJoin" /\ last'.inst = i) =>
               /\ now \in {200, 600, 1200, 2500}
               /\ AnnouncePending(i, now) /\ ~AnnouncePending(i, now)'
               /\ IF destroyed[i] THEN SendsNothing(i)
                  ELSE sent'[i] = sent[i] + 1 /\ PutsOnWire(i, NextJoin(i))]_vars

\* at 2500 ms the observer, alive, has made its last scheduled announcement, and
\* the last one of the subject, destroyed, has just run
C18_Witness ==
  /\ now = 2500
  /\ Live(Observer) /\ \A t \in {200, 600, 1200, 2500} : ~AnnouncePending(Observer, t)
  /\ destroyed[Subject] /\ last.op = "announceJoin" /\ last.inst = Subject

\* instance i has registered at instant reg a reply to peer p, due 50 ms later
ReplyPending(i, p, reg) ==
  \E k \in 1..Len(timeouts[i]) :
    /\ timeouts[i][k].fn = "reply" /\ timeouts[i][k].key = p
    /\ timeouts[i][k].reg = reg /\ timeouts[i][k].at = reg + 50

\* the replies among the pending timeouts ts
Replies(ts) == SelectSeq(ts, LAMBDA x : x.fn = "reply")

\* C19 as stated: every join announcement an instance accepts from a peer is
\* answered: the instance's own join is scheduled for 50 ms later.
C19_Original ==
  (Accepted /\ last.msg.type = "playerJoin") =>
     ReplyPending(last.inst, last.msg.peerId, now)

\* C19 amended: a message an instance accepts schedules the instance's own join
\* for 50 ms later exactly if it is a playerJoin of a peer that was not in the
\* registry; the clock does not pass a scheduled reply, and the reply, when its
\* time has come, puts one join announcement of the instance on its transports
\* if the instance is still alive and nothing otherwise.
C19_ReplyToNewcomer ==
  /\ [](\A i \in Insts : \A k \in 1..Len(timeouts[i]) :
          timeouts[i][k].fn = "reply" =>
            /\ timeouts[i][k].at = timeouts[i][k].reg + 50
            /\ now <= timeouts[i][k].at)
  /\ [][\A i \in Insts :
          /\ (Accepted' /\ last'.inst = i) =>
               Replies(timeouts'[i]) =
                 IF last'.msg.type = "playerJoin" /\ ~last'.known
                 THEN Append(Replies(timeouts[i]),
                             [at |-> now + 50, reg |-> now, fn |-> "reply",
                              key |-> last'.msg.peerId])
                 ELSE Replies(timeouts[i])
          /\ (last'.op = "reply" /\ last'.inst = i) =>
               /\ \E p \in Peers : ReplyPending(i, p, now - 50)
               /\ Len(Replies(timeouts'[i])) = Len(Replies(timeouts[i])) - 1
               /\ IF destroyed[i] THEN SendsNothing(i)
                  ELSE sent'[i] = sent[i] + 1 /\ PutsOnWire(i, NextJoin(i))]_vars

\* the instance has just answered a join it accepted 50 ms earlier from a peer it
\* did not know, the only message of that peer
C19_Witness ==
  /\ last.op = "reply" /\ Live(last.inst)
  /\ \E p \in Peers \ {last.inst} :
       /\ lastHeard[last.inst][p].any = now - 50
       /\ sent[p] = 1
       /\ MapHas(remotePlayers[last.inst], p)
  /\ \E r \in store : r.from = last.inst /\ r.data.type = "playerJoin" /\ r.data.msgId = <<last.inst, sent[last.inst]>>

\* the steps that run an outbound operation
IsSend(i) ==
  /\ last'.inst = i
  /\ last'.op \in {"construct", "announceJoin", "reply", "heartbeat",
                   "sendPlayerUpdate", "sendLevelChange", "startGame"}

\* the message the operation of the step sends, stamped with the next id of i
Stamped(i) ==
  LET body == IF last'.op \in {"sendPlayerUpdate", "sendLevelChange", "startGame"}
              THEN last'.msg
              ELSE [type |-> IF last'.op = "heartbeat" THEN "heartbeat" ELSE "playerJoin",
                    peerId |-> i, name |-> OwnProfile(i).name, color |-> OwnProfile(i).color]
  IN [f \in DOMAIN body \cup {"msgId"} |-> IF f = "msgId" THEN <<i, sent[i] + 1>> ELSE body[f]]

\* no message on a transport, in the store or in a dedup set carries the id
Fresh(id) ==
  /\ \A e \in bcInFlight : e.msg.msgId # id
  /\ \A e \in lsEvents : e.data.msgId # id
  /\ \A r \in store : r.data.msgId # id
  /\ \A j \in Insts : ~SeqHas(seenMessageIds[j], id)

\* C20: every outbound operation of a live instance (a call of sendPlayerUpdate,
\* sendLevelChange or startGame, a heartbeat, a join announcement) takes one id
\* that no message carries yet; the message stamped with it goes to every
\* listener of the channel if the instance's channel was opened and its write
\* does not throw, and into the store and to every listener of the store if the
\* store is usable and its write does not throw; nothing else is sent, a
\* transport that is missing or throws at the write gets nothing, and no error
\* leaves the operation.
C20_SendOnEveryTransport ==
  [][\A i \in Insts :
       (IsSend(i) /\ ~destroyed[i]) =>
          LET m == Stamped(i)
              viaChannel == bcChannel'[i] /\ "bc" \notin faults[i]
              viaStore == lsOK'[i] /\ "ls" \notin faults[i]
          IN /\ sent'[i] = sent[i] + 1
             /\ Fresh(m.msgId)
             /\ bcInFlight' \ bcInFlight =
                  IF viaChannel
                  THEN {[to |-> j, msg |-> m] :
                          j \in {x \in Insts \ {i} : created[x] /\ bcChannel[x] /\ ~destroyed[x]}}
                  ELSE {}
             /\ {r.data : r \in store' \ store} = IF viaStore THEN {m} ELSE {}
             /\ {<<e.to, e.data>> : e \in lsEvents' \ lsEvents} =
                  IF viaStore
                  THEN {<<j, m>> :
                          j \in {x \in Insts \ {i} : created[x] /\ lsOK[x] /\ ~destroyed[x]}}
                  ELSE {}
             /\ last'.thrown = {}]_vars

\* a heartbeat went out on the channel while the write to the store threw
C20_Witness ==
  /\ last.op = "heartbeat" /\ last.inst = Subject /\ last.thrown = {}
  /\ bcChannel[Subject] /\ lsOK[Subject] /\ faults[Subject] = {"ls"}
  /\ \E e \in bcInFlight :
       e.to = Observer /\ e.msg.type = "heartbeat" /\ e.msg.msgId = <<Subject, sent[Subject]>>
  /\ \A r \in store : r.data.msgId # <<Subject, sent[Subject]>>
  /\ \A e \in lsEvents : e.data.msgId # <<Subject, sent[Subject]>>

\* C21: a value of the store that does not parse, or parses to something other
\* than a message with the fields of its type, leaves the registry as it was and
\* fires no callback.
C21_MalformedDropped ==
  [][last'.op = "storageHandlerRaw" =>
       /\ remotePlayers' = remotePlayers
       /\ fired' = <<>>]_vars

\* C22: an instance handles only messages of senders constructed with its own
\* room identifier: whatever a handler accepts comes from a page of the
\* instance's room, and so does every entry of the registry.
C22_RoomIsolation ==
  /\ Accepted => roomId[last.msg.peerId] = roomId[last.inst]
  /\ \A i \in Insts : \A k \in 1..Len(remotePlayers[i]) :
       roomId[remotePlayers[i][k].id] = roomId[i]

\* a message of the guest as the host would have sent it: the sender's id, name
\* and color replaced by the host's
AsHost(msg) ==
  [f \in DOMAIN msg |->
     IF f = "peerId" THEN Host
     ELSE IF f = "msgId" THEN <<Host, msg.msgId[2]>>
     ELSE IF f = "name" THEN OwnProfile(Host).name
     ELSE IF f = "color" THEN OwnProfile(Host).color
     ELSE IF f = "player"
          THEN [msg.player EXCEPT !.name = OwnProfile(Host).name,
                                  !.color = OwnProfile(Host).color]
     ELSE msg[f]]

\* the pending timeouts without the store keys, which name the writer
Pending(ts) == [k \in 1..Len(ts) |-> [at |-> ts[k].at, reg |-> ts[k].reg, fn |-> ts[k].fn]]

\* host and guest are in the same state
SameState ==
  /\ created[Guest] = created[Host] /\ destroyed[Guest] = destroyed[Host]
  /\ bcChannel[Guest] = bcChannel[Host] /\ lsOK[Guest] = lsOK[Host]
  /\ remotePlayers[Guest] = remotePlayers[Host]
  /\ seenMessageIds[Guest] = seenMessageIds[Host]
  /\ heartbeatInterval[Guest] = heartbeatInterval[Host]
  /\ cleanupInterval[Guest] = cleanupInterval[Host]
  /\ Pending(timeouts[Guest]) = Pending(timeouts[Host])
  /\ sent[Guest] = sent[Host]
  /\ {AsHost(r.data) : r \in {x \in store : x.from = Guest}}
       = {r.data : r \in {x \in store : x.from = Host}}

\* C23: when the guest (isHost false) has taken the step the host (isHost true)
\* took just before, on the same input, it has fired the callbacks the host
\* fired, it has put on the channel the messages the host put there, and the two
\* are in the same state: same registry, dedup set, timers and messages in the
\* store.
C23_HostFlagInert ==
  [][(last'.inst = Guest /\ last'.op \in InstanceOps) =>
       /\ last.inst = Host /\ last'.op = last.op
       /\ fired' = fired
       /\ SameState'
       /\ last.op # "construct" =>
            {AsHost(e.msg) : e \in {x \in bcInFlight' : x.msg.peerId = Guest}}
              = {e.msg : e \in {x \in bcInFlight' : x.msg.peerId = Host}}]_vars

\* the guest has just taken a startGame of c1 as the host did before it
C23_Witness ==
  /\ isHost[Host] /\ ~isHost[Guest]
  /\ last.inst = Guest /\ IsDelivery /\ last.processed /\ last.msg.type = "startGame"
  /\ FiredWith(fired, "onGameStart", 1)
  /\ remotePlayers[Host] # <<>>

\* C24: when one of two instances in the same state has handled a copy of a
\* message of another peer taken from one transport and the other instance has
\* then handled the copy of the same message taken from the other transport, the
\* two have made the same dedup decision, fired the same callbacks and are in
\* the same state: same dedup set, registry and pending timeouts.
C24_TransportAgnostic ==
  [][(last'.inst = Guest /\ last'.op \in {"bcOnMessage", "storageHandler"}) =>
       /\ last.inst = Host /\ last.op \in {"bcOnMessage", "storageHandler"}
       /\ last'.op # last.op
       /\ last'.msg = last.msg
       /\ last'.processed = last.processed
       /\ fired' = fired
       /\ seenMessageIds'[Guest] = seenMessageIds'[Host]
       /\ remotePlayers'[Guest] = remotePlayers'[Host]
       /\ Pending(timeouts'[Guest]) = Pending(timeouts'[Host])]_vars

\* the guest has accepted from the store the playerJoin the host accepted from
\* the channel, after the dedup set was trimmed and after the clock moved
C24_Witness ==
  /\ last.inst = Guest /\ last.op = "storageHandler" /\ last.processed
  /\ last.msg.type = "playerJoin" /\ ~last.known
  /\ sent["c1"] > 200 /\ now > 0
  /\ fired # <<>>
  /\ remotePlayers[Host] = remotePlayers[Guest] /\ remotePlayers[Guest] # <<>>
\* C25: once the Subject is destroyed, whichever of the copies of its earlier
\* messages are lost, handled twice (one per transport) or handled late and out
\* of order, the Observer, which stays alive, eventually has no entry for the
\* Subject in its registry and has none from then on.
C25_GoneForGood ==
  destroyed[Subject] ~> [](~MapHas(remotePlayers[Observer], Subject))

\* the Observer has registered the destroyed Subject again from a late heartbeat,
\* after a scan had removed the Subject
C25_Witness ==
  /\ destroyed[Subject] /\ ~destroyed[Observer]
  /\ last.inst = Observer /\ IsDelivery /\ last.processed
  /\ last.msg.peerId = Subject /\ last.msg.type = "heartbeat" /\ ~last.known
  /\ now > 3000
  /\ MapHas(remotePlayers[Observer], Subject)
\* C26: a handler run that records a new id appends it to the dedup set and, when
\* that makes more than 200 ids, leaves exactly the last 100 of them, the new one
\* last; a run for an id that is among the last 100 of the set is rejected.
C26_TrimKeepsLast100 ==
  [][\A i \in Insts :
       (last'.op \in {"bcOnMessage", "storageHandler"} /\ last'.inst = i /\ ~destroyed[i]
        /\ last'.msg.peerId # i) =>
         LET old == seenMessageIds[i]
             new == seenMessageIds'[i]
             id == last'.msg.msgId
             recent == {old[k] : k \in {j \in 1..Len(old) : j > Len(old) - 100}}
         IN /\ id \in recent => ~last'.processed
            /\ last'.processed =>
                 IF Len(old) + 1 > 200
                 THEN /\ Len(new) = 100
                      /\ new[100] = id
                      /\ \A k \in 1..99 : new[k] = old[Len(old) - 99 + k]
                 ELSE new = old \o <<id>>]_vars

\* the first id of the burst, recorded once and cut off by the trim at the 201st,
\* has been accepted a second time
C26_Witness ==
  /\ sent["a1"] > 200
  /\ IsDelivery /\ last.processed /\ last.msg.msgId = <<"a1", 1>>
  /\ seenMessageIds[Self][Len(seenMessageIds[Self])] = <<"a1", 1>>
  /\ Len(seenMessageIds[Self]) > 100
\* the step is instance i accepting a message of type t of peer p
Accepts(i, p, t) ==
  /\ last'.op \in {"bcOnMessage", "storageHandler"} /\ last'.inst = i /\ last'.processed
  /\ last'.msg.peerId = p /\ last'.msg.type = t
\* the step registers p at i, fires the "peer joined" status and the two
\* membership notifications, and schedules a reply 50 ms later if t is playerJoin
Rejoins(i, p, t) ==
  /\ ~MapHas(remotePlayers[i], p) /\ MapHas(remotePlayers'[i], p)
  /\ StatusCount(fired', "joined") = 1
  /\ CountCb(fired', "onConnectionChange") = 1
  /\ CountCb(fired', "onPlayerListChange") = 1
  /\ LET new == {k \in 1..Len(timeouts'[i]) : k > Len(timeouts[i])}
     IN IF t = "playerJoin"
        THEN \E k \in new : /\ timeouts'[i][k].fn = "reply"
                             /\ timeouts'[i][k].at = now + 50
        ELSE new = {}

\* C27 as stated: the first playerJoin or heartbeat an instance accepts from a peer
\* after a scan or a playerLeft removed the peer registers it again, fires the
\* "peer joined" status and the membership notifications, and, for a playerJoin,
\* schedules a reply.
C27_Original ==
  [][\A i \in Insts : \A p \in Peers \ {i} : \A t \in {"playerJoin", "heartbeat"} :
       (Accepts(i, p, t) /\ p \in removed[i]) => Rejoins(i, p, t)]_vars

\* C27: a peer a scan or a playerLeft removed is not in the registry; the first
\* playerJoin or heartbeat the instance accepts from it afterwards registers it
\* again, fires the "peer joined" status and the membership notifications and, for
\* a playerJoin, schedules a reply, unless a playerUpdate accepted in between has
\* registered the peer already, in which case it fires nothing and schedules
\* nothing.
C27_RemovedIsUnknown ==
  [][\A i \in Insts : \A p \in Peers \ {i} :
       /\ (p \in removed'[i] /\ p \notin removed[i]) => ~MapHas(remotePlayers'[i], p)
       /\ \A t \in {"playerJoin", "heartbeat"} :
            (Accepts(i, p, t) /\ p \in removed[i]) =>
              IF MapHas(remotePlayers[i], p)
              THEN /\ fired' = <<>>
                   /\ Len(timeouts'[i]) = Len(timeouts[i])
                   /\ \E k \in 1..Len(remotePlayers[i]) :
                        /\ remotePlayers[i][k].id = p
                        /\ lastHeard[i][p].alive = remotePlayers[i][k].lastSeen
              ELSE Rejoins(i, p, t)]_vars

\* the instance has accepted a playerJoin of a peer its scan had evicted: the
\* peer is registered again, the "peer joined" status fired and a reply is pending
C27_Witness ==
  /\ Accepted /\ last.msg.type = "playerJoin" /\ ~last.known
  /\ now >= 4000
  /\ "c1" \notin removed[Self]
  /\ MapHas(remotePlayers[Self], "c1")
  /\ StatusCount(fired, "joined") = 1
  /\ \E k \in 1..Len(timeouts[Self]) : timeouts[Self][k].fn = "reply"
                                         /\ timeouts[Self][k].at = now + 50
  /\ lastHeard[Self]["c1"].alive = now
\* C28: a scan keeps, untouched and without a departure notification, every
\* registered peer of which the instance accepted a playerJoin, heartbeat or
\* playerUpdate at most 3000 ms earlier; an entry leaves the registry only by a
\* scan that finds it older than that, by an accepted playerLeft of the peer or by
\* the instance's destroy(), and no other step fires a departure status.
C28_NoFalseEviction ==
  [][\A i \in Insts : \A p \in Peers \ {i} :
       MapHas(remotePlayers[i], p) =>
         LET heard == lastHeard[i][p].alive
             scan == last'.op = "cleanup" /\ last'.inst = i /\ ~destroyed[i]
             left == /\ last'.op \in {"bcOnMessage", "storageHandler"} /\ last'.inst = i
                     /\ last'.processed /\ last'.msg.type = "playerLeft"
         IN /\ heard >= 0
            /\ (scan /\ now - heard <= 3000) =>
                 /\ MapHas(remotePlayers'[i], p)
                 /\ MapGet(remotePlayers'[i], p) = MapGet(remotePlayers[i], p)
                 /\ ~FiredWith(fired', "onMessage", PlayerLeft(p))
                 /\ StatusCount(fired', "disconnected")
                      = Cardinality(MapKeys(remotePlayers[i]) \ MapKeys(remotePlayers'[i]))
            /\ ~MapHas(remotePlayers'[i], p) =>
                 \/ scan /\ now - heard > 3000
                 \/ left /\ last'.msg.peerId = p
                 \/ last'.op = "destroy" /\ last'.inst = i
            /\ (~scan /\ ~left) =>
                 /\ StatusCount(fired', "disconnected") = 0
                 /\ StatusCount(fired', "left") = 0]_vars

\* the scan at 4000 has kept a peer last heard at 1000, exactly 3000 ms earlier,
\* and fired nothing
C28_Witness ==
  /\ last.op = "cleanup" /\ last.inst = Self /\ ~destroyed[Self]
  /\ now = 4000
  /\ \E p \in EnvPeers :
       /\ MapHas(remotePlayers[Self], p)
       /\ lastHeard[Self][p].alive = 1000
       /\ MapGet(remotePlayers[Self], p).lastSeen = 1000
  /\ fired = <<>>
\* C29: the pending replies of an instance grow only by one, and only in a step
\* in which the instance accepts a playerJoin of a peer that was not in its
\* registry and is in it afterwards; in a room where no entry is ever removed
\* that is the first message it registers the peer from, and a reply the instance
\* sends to a peer is the first it sends to that peer.
C29_NoPingPong ==
  [][\A i \in Insts :
       LET before == Len(SelectSeq(timeouts[i], LAMBDA x : x.fn = "reply"))
           after == Len(SelectSeq(timeouts'[i], LAMBDA x : x.fn = "reply"))
           p == last'.msg.peerId
       IN /\ after > before =>
               /\ after = before + 1
               /\ last'.op \in {"bcOnMessage", "storageHandler"} /\ last'.inst = i
               /\ last'.processed /\ last'.msg.type = "playerJoin"
               /\ ~MapHas(remotePlayers[i], p) /\ MapHas(remotePlayers'[i], p)
               /\ lastHeard[i][p].alive < 0
               /\ removed[i] = {}
          /\ (last'.op = "reply" /\ last'.inst = i /\ ~destroyed[i]) =>
               /\ after = before - 1
               /\ sent'[i] = sent[i] + 1
               /\ \E q \in Insts \ {i} : ~joinHeard[i][q].replied /\ joinHeard'[i][q].replied]_vars

\* each of the two instances has answered the other's join once, no reply is
\* pending and both have gone on announcing and sending heartbeats since
C29_Witness ==
  /\ joinHeard["a1"]["b1"].replied /\ joinHeard["b1"]["a1"].replied
  /\ \A i \in Insts : Live(i) /\ SelectSeq(timeouts[i], LAMBDA x : x.fn = "reply") = <<>>
  /\ now >= 1200
  /\ IsDelivery /\ last.processed /\ last.msg.type = "playerJoin" /\ last.known
\* C30: once two instances with a transport in common are both running, each
\* eventually has the other in its registry, whichever join announcements and
\* replies are lost, as long as some heartbeat of each gets through.
C30_EventualDiscovery ==
  (created["a1"] /\ created["b1"])
    ~> (MapHas(remotePlayers["a1"], "b1") /\ MapHas(remotePlayers["b1"], "a1"))

\* each lists the other although neither ever accepted a join announcement or a
\* reply of the other
C30_Witness ==
  /\ MapHas(remotePlayers["a1"], "b1") /\ MapHas(remotePlayers["b1"], "a1")
  /\ joinHeard["a1"]["b1"].at < 0 /\ joinHeard["b1"]["a1"].at < 0
  /\ \A i \in Insts : Live(i) /\ SelectSeq(timeouts[i], LAMBDA x : x.fn = "reply") = <<>>
  /\ IsDelivery /\ last.processed /\ last.msg.type = "heartbeat" /\ ~last.known
====
